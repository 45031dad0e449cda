-------------------------- MODULE ArbitratorThreads --------------------------
(***************************************************************************)
(* SafetyArbitrator with its calls cut at their accesses to shared fields: *)
(* threads that report and heartbeat for one sensor domain, the safety     *)
(* loop in Arbitrate(), and a thread that drains the transition log.       *)
(*                                                                         *)
(* Memory is sequentially consistent: of each pair of accesses whose order *)
(* matters across threads one is a release store or the other an acquire   *)
(* load, except where the comment at the action says so.  A plain struct   *)
(* that is being assigned holds Torn, any mixture of its old and new       *)
(* content.  The other domains are nominal, no domain is mandatory, and    *)
(* what SafetyArbitrator shows of command and sequence number is left out. *)
(***************************************************************************)
EXTENDS DegradationMatrix, Sequences

CONSTANTS
  Reporters,        \* the threads that call IngestFault() and RecordHeartbeat()
  Domain,           \* the one domain they report on
  SensorTimeout,    \* kSensorTimeoutMs
  FaultModulus,     \* 2^32: where the fault count wraps
  LogSlots,         \* kMaxTransitionLog
  BufferSize,       \* the buffer handed to DrainTransitionLog()
  MaxTime,          \* bound on the clock
  MaxTransitions,   \* bound on the transitions
  ClockModulus,     \* 2^64: where ages wrap
  Torn, Blank       \* a record that is being, or never was, written

ASSUME DomainAssumption == Domain \in ValidDomain
ASSUME NumbersAssumption ==
  /\ SensorTimeout \in Nat
  /\ FaultModulus \in Nat \ {0, 1}
  /\ LogSlots \in Nat \ {0}
  /\ BufferSize \in Nat \ {0}
  /\ MaxTime \in Nat
  /\ MaxTransitions \in Nat
  /\ ClockModulus \in Nat /\ ClockModulus > MaxTime

Health == {"nominal", "degraded", "failed", "unknown"}

\* What is left here of a SafeStateTransition.
Record == [fromState : SafeState, toState : SafeState, sequenceNum : Nat]

ASSUME MarksAssumption == Torn \notin Record /\ Blank \notin Record

VARIABLES
  now,              \* GetMonotonicMs()
  health,
  faultCount,
  lastHeartbeat,
  pc,               \* of each reporter: the next access of its call
  faultBitmask,
  currentState,
  transitionCount,
  transitionLog,
  logHead,
  step,             \* the next access of Arbitrate()
  nowMs, lastBeat,  \* locals of ScanTimeouts()
  from,             \* local of ExecuteTransition()
  drain,            \* the next access of DrainTransitionLog()
  head, count,      \* its locals ...
  buffer,           \* ... and what it has copied
  standing,         \* history: "begun" and then "failed" since such a report
                    \* began and returned, with no other report and no wrap of
                    \* the count meanwhile
  overlapping       \* history: the transitions that had a part during the drain

domainVars == <<health, faultCount, lastHeartbeat>>
reportVars == <<pc, standing>>
loopVars == <<faultBitmask, currentState, step, nowMs, lastBeat, from>>
logVars == <<transitionCount, transitionLog, logHead>>
drainVars == <<drain, head, count, buffer>>
vars == <<now, domainVars, reportVars, loopVars, logVars, drainVars, overlapping>>

\* Right after Init().
Init ==
  /\ now = 0
  /\ health = "unknown" /\ faultCount = 0 /\ lastHeartbeat = 0
  /\ pc = [t \in Reporters |-> "idle"]
  /\ faultBitmask = {}
  /\ currentState = FullOperation
  /\ transitionCount = 0
  /\ transitionLog = [i \in 0 .. LogSlots - 1 |-> Blank]
  /\ logHead = 0
  /\ step = "idle" /\ nowMs = 0 /\ lastBeat = 0 /\ from = FullOperation
  /\ drain = "idle" /\ head = 0 /\ count = 0 /\ buffer = <<>>
  /\ standing = "none"
  /\ overlapping = 0

Tick ==
  /\ now < MaxTime
  /\ now' = now + 1
  /\ UNCHANGED <<domainVars, reportVars, loopVars, logVars, drainVars, overlapping>>

-----------------------------------------------------------------------------
\* IngestFault(fault) of thread t: the health first, then counter and stamp.
\* kDegraded stands for whatever is neither kNominal nor kFailed.
Goto(t, label) == pc' = [pc EXCEPT ![t] = label]

StoreHealth(t, h) ==
  /\ pc[t] = "idle"
  /\ health' = h
  /\ Goto(t, IF h = "nominal" THEN "clear" ELSE "count")
  /\ standing' =
       IF h # "failed" THEN "none"
       ELSE IF /\ standing = "none"
               /\ \A u \in Reporters : pc[u] \in {"idle", "load", "revive"}
       THEN "begun" ELSE standing
  /\ UNCHANGED <<now, faultCount, lastHeartbeat, loopVars, logVars, drainVars, overlapping>>

\* fetch_add(1) on the fault count, which goes from 2^32 - 1 to 0.
Bump(n) == IF n + 1 = FaultModulus THEN 0 ELSE n + 1

CountFault(t) ==
  /\ pc[t] = "count"
  /\ faultCount' = Bump(faultCount)
  /\ Goto(t, "idle")
  /\ standing' = IF faultCount' = 0 THEN "none"
                 ELSE IF standing = "begun" THEN "failed" ELSE standing
  /\ UNCHANGED <<now, health, lastHeartbeat, loopVars, logVars, drainVars, overlapping>>

ClearCount(t) ==
  /\ pc[t] = "clear"
  /\ faultCount' = 0
  /\ Goto(t, "stamp")
  /\ UNCHANGED <<now, health, lastHeartbeat, standing, loopVars, logVars, drainVars,
                 overlapping>>

StampRecovery(t) ==
  /\ pc[t] = "stamp"
  /\ lastHeartbeat' = now
  /\ Goto(t, "idle")
  /\ UNCHANGED <<now, health, faultCount, standing, loopVars, logVars, drainVars,
                 overlapping>>

\* RecordHeartbeat(domain) of thread t: stamp, look at the count, revive.
StampHeartbeat(t) ==
  /\ pc[t] = "idle"
  /\ lastHeartbeat' = now
  /\ Goto(t, "load")
  /\ UNCHANGED <<now, health, faultCount, standing, loopVars, logVars, drainVars,
                 overlapping>>

\* Mutant: the domain is revived whatever is counted against it.
LoadCountIgnored(t) ==
  /\ pc[t] = "load"
  /\ Goto(t, "revive")
  /\ UNCHANGED <<now, domainVars, standing, loopVars, logVars, drainVars, overlapping>>

LoadCount(t) ==
  /\ pc[t] = "load"
  /\ Goto(t, IF faultCount = 0 THEN "revive" ELSE "idle")
  /\ UNCHANGED <<now, domainVars, standing, loopVars, logVars, drainVars, overlapping>>

Revive(t) ==
  /\ pc[t] = "revive"
  /\ health' = "nominal"
  /\ Goto(t, "idle")
  /\ UNCHANGED <<now, faultCount, lastHeartbeat, standing, loopVars, logVars, drainVars,
                 overlapping>>

Report ==
  \E t \in Reporters :
    \/ \E h \in Health \ {"unknown"} : StoreHealth(t, h)
    \/ CountFault(t)
    \/ ClearCount(t)
    \/ StampRecovery(t)
    \/ StampHeartbeat(t)
    \/ LoadCount(t)
    \/ Revive(t)

-----------------------------------------------------------------------------
\* ScanTimeouts(): the clock is read before the stamp it is compared with.
ReadClock ==
  /\ step = "idle"
  /\ transitionCount < MaxTransitions
  /\ nowMs' = now
  /\ step' = "loadBeat"
  /\ UNCHANGED <<now, domainVars, reportVars, faultBitmask, currentState, lastBeat, from,
                 logVars, drainVars, overlapping>>

\* Mutant: no wrap guard.
LoadBeatUnguarded ==
  /\ step = "loadBeat"
  /\ lastBeat' = lastHeartbeat
  /\ step' = IF (nowMs - lastHeartbeat) % ClockModulus > SensorTimeout
             THEN "promote" ELSE "mask"
  /\ UNCHANGED <<now, domainVars, reportVars, faultBitmask, currentState, nowMs, from,
                 logVars, drainVars, overlapping>>

LoadBeat ==
  /\ step = "loadBeat"
  /\ lastBeat' = lastHeartbeat
  /\ step' = IF /\ nowMs >= lastHeartbeat
                /\ (nowMs - lastHeartbeat) % ClockModulus > SensorTimeout
             THEN "promote" ELSE "mask"
  /\ UNCHANGED <<now, domainVars, reportVars, faultBitmask, currentState, nowMs, from,
                 logVars, drainVars, overlapping>>

\* The health is looked at, stored and counted in three accesses.
LoadHealth ==
  /\ step = "promote"
  /\ step' = IF health = "failed" THEN "mask" ELSE "storeFailed"
  /\ UNCHANGED <<now, domainVars, reportVars, faultBitmask, currentState, nowMs, lastBeat,
                 from, logVars, drainVars, overlapping>>

StoreFailed ==
  /\ step = "storeFailed"
  /\ health' = "failed"
  /\ step' = "countTimeout"
  /\ UNCHANGED <<now, faultCount, lastHeartbeat, reportVars, faultBitmask, currentState,
                 nowMs, lastBeat, from, logVars, drainVars, overlapping>>

CountTimeout ==
  /\ step = "countTimeout"
  /\ faultCount' = Bump(faultCount)
  /\ standing' = IF faultCount' = 0 /\ standing = "failed" THEN "none" ELSE standing
  /\ step' = "mask"
  /\ UNCHANGED <<now, health, lastHeartbeat, pc, faultBitmask, currentState,
                 nowMs, lastBeat, from, logVars, drainVars, overlapping>>

\* UpdateBitmasks()
UpdateBitmasks ==
  /\ step = "mask"
  /\ faultBitmask' = IF health = "failed" THEN {Domain} ELSE {}
  /\ step' = "decide"
  /\ UNCHANGED <<now, domainVars, reportVars, currentState, nowMs, lastBeat, from,
                 logVars, drainVars, overlapping>>

\* The rest of Arbitrate() and ExecuteTransition() up to the new state.
Decide ==
  /\ step = "decide"
  /\ currentState' = MatrixState(faultBitmask)
  /\ from' = currentState
  /\ step' = IF currentState' = currentState THEN "idle" ELSE "number"
  /\ UNCHANGED <<now, domainVars, reportVars, faultBitmask, nowMs, lastBeat,
                 logVars, drainVars, overlapping>>

\* transitionCount_.fetch_add()
CountTransition ==
  /\ step = "number"
  /\ transitionCount' = transitionCount + 1
  /\ overlapping' = overlapping + 1
  /\ step' = "write"
  /\ UNCHANGED <<now, domainVars, reportVars, faultBitmask, currentState, nowMs, lastBeat,
                 from, transitionLog, logHead, drainVars>>

\* Mutant: the head is stored before the record.
WriteRecordLate ==
  /\ \/ /\ step = "write"
        /\ logHead' = (logHead + 1) % LogSlots
        /\ step' = "written"
        /\ UNCHANGED transitionLog
     \/ /\ step = "written"
        /\ transitionLog' =
             [transitionLog EXCEPT ![(logHead + LogSlots - 1) % LogSlots] =
                [fromState |-> from, toState |-> currentState,
                 sequenceNum |-> transitionCount]]
        /\ step' = "idle"
        /\ UNCHANGED logHead
  /\ UNCHANGED <<now, domainVars, reportVars, faultBitmask, currentState, nowMs, lastBeat,
                 from, transitionCount, drainVars, overlapping>>

\* LogTransition(): the record, while it is being written and after.
WriteRecord ==
  /\ \/ /\ step = "write"
        /\ transitionLog' = [transitionLog EXCEPT ![logHead] = Torn]
        /\ step' = "written"
     \/ /\ step = "written"
        /\ transitionLog' =
             [transitionLog EXCEPT ![logHead] =
                [fromState |-> from, toState |-> currentState,
                 sequenceNum |-> transitionCount]]
        /\ step' = "head"
  /\ UNCHANGED <<now, domainVars, reportVars, faultBitmask, currentState, nowMs, lastBeat,
                 from, transitionCount, logHead, drainVars, overlapping>>

StoreHead ==
  /\ step = "head"
  /\ logHead' = (logHead + 1) % LogSlots
  /\ step' = "idle"
  /\ UNCHANGED <<now, domainVars, reportVars, faultBitmask, currentState, nowMs, lastBeat,
                 from, transitionCount, transitionLog, drainVars, overlapping>>

Loop ==
  \/ ReadClock \/ LoadBeat
  \/ LoadHealth \/ StoreFailed \/ CountTimeout
  \/ UpdateBitmasks \/ Decide
  \/ CountTransition \/ WriteRecord \/ StoreHead

-----------------------------------------------------------------------------
\* DrainTransitionLog(buffer, bufferSize): the head, then the count, which is
\* loaded a second time if the first was not beyond the log.
LoadHead ==
  /\ drain = "idle"
  /\ head' = logHead
  /\ buffer' = <<>>
  /\ drain' = "count"
  /\ overlapping' = IF step \in {"write", "written", "head"} THEN 1 ELSE 0
  /\ UNCHANGED <<now, domainVars, reportVars, loopVars, logVars, count>>

LoadTransitionCount ==
  /\ \/ /\ drain = "count"
        /\ IF transitionCount > LogSlots
           THEN count' = LogSlots /\ drain' = "copy"
           ELSE drain' = "countAgain" /\ UNCHANGED count
     \/ /\ drain = "countAgain"
        /\ count' = transitionCount
        /\ drain' = "copy"
  /\ UNCHANGED <<now, domainVars, reportVars, loopVars, logVars, head, buffer, overlapping>>

\* One record more, newest first.
Copy ==
  /\ drain = "copy"
  /\ LET toCopy == IF count < BufferSize THEN count ELSE BufferSize IN
       IF Len(buffer) < toCopy
       THEN /\ buffer' =
                 Append(buffer,
                        transitionLog[(head + LogSlots - 1 - Len(buffer)) % LogSlots])
            /\ UNCHANGED drain
       ELSE drain' = "idle" /\ UNCHANGED buffer
  /\ UNCHANGED <<now, domainVars, reportVars, loopVars, logVars, head, count, overlapping>>

Drain == LoadHead \/ LoadTransitionCount \/ Copy

Next == Tick \/ Report \/ Loop \/ Drain

Spec == Init /\ [][Next]_vars

-----------------------------------------------------------------------------
\* "Lock-free -- safe from any thread": once IngestFault() has returned for
\* kFailed, the domain stays failed until another report begins or the fault
\* count wraps, whatever heartbeats and cycles come and wherever they stand.
FailureKept == standing = "failed" => health = "failed"

\* A domain is timed out for silence only: its stamp was older than the timeout
\* when the cycle began, even if it beats while it is being looked at.
TimeoutsAreReal ==
  step \in {"promote", "storeFailed", "countTimeout"} => lastBeat + SensorTimeout < nowMs

\* What a drain returns beside one transition at most: the records of the
\* transitions that had moved the head before it began, but for the oldest slot
\* of a full log, were written completely and continue one another from the
\* newest on.  (A transition counted but not yet in the log makes the drain
\* return one record more than there are.)
DrainedAllButOldest ==
  overlapping <= 1 =>
    \A i \in 1 .. Len(buffer) :
      i < LogSlots /\ i <= transitionCount - overlapping =>
        /\ buffer[i] \notin {Torn, Blank}
        /\ i > 1 => /\ buffer[i - 1].fromState = buffer[i].toState
                    /\ buffer[i - 1].sequenceNum = buffer[i].sequenceNum + 1
=============================================================================
