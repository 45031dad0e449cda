----------------------- MODULE SafetyArbitratorProofs -----------------------
(***************************************************************************)
(* Safety of the arbitrator for every set of domains, mandatory mask,      *)
(* timeout, counter width and log size.                                    *)
(*                                                                         *)
(* The goal is that nothing is released without cause.  It needs that the  *)
(* state in force is demanded by the present health, with the domains      *)
(* excused that reported or whose count wrapped (RestrictionJustified),    *)
(* and that every published domain is still failed or excused              *)
(* (PublishedKept).  Both are inductive because the matrix with its latch  *)
(* is monotone (RequiredMonotone) and because a heartbeat revives a failed *)
(* domain only if its count wrapped (CountsMatchHealth).                   *)
(*                                                                         *)
(* The command in force and the audit trail follow the state: the trail    *)
(* needs that every slot of the log which was ever written continues the   *)
(* one before it, across the wraps of the log and of the counters.         *)
(***************************************************************************)
EXTENDS SafetyArbitrator, DegradationMatrixProofs

\* Before Init() nothing is restricted.
Uninitialised == ~initialised => currentState = FullOperation

\* The counts that RestrictionJustified reckons with.
Claimed ==
  [d \in Domains |-> IF d \in Excused THEN FaultModulus - 1 ELSE faultCount[d]]

\* A published domain is failed still, unless it is excused.
PublishedKept == faultBitmask \subseteq FailedDomains \cup Excused

IInv ==
  /\ TypeOK
  /\ Uninitialised
  /\ CountsMatchHealth
  /\ StateMatchesMask
  /\ PublishedKept
  /\ RestrictionJustified

-----------------------------------------------------------------------------
\* The counters stay within 32 bits; a fault count grows or is carried to 0.
LEMMA Next32Type ==
  ASSUME NEW n \in 0..(CounterModulus - 1)
  PROVE  Next32(n) \in 0..(CounterModulus - 1)
BY NumbersAssumption DEF Next32

LEMMA BumpType ==
  ASSUME NEW n \in 0..(FaultModulus - 1)
  PROVE  /\ Bump(n) \in 0..(FaultModulus - 1)
         /\ n <= Bump(n) \/ (n = FaultModulus - 1 /\ Bump(n) = 0)
         /\ Bump(n) = 0 => n = FaultModulus - 1
BY NumbersAssumption DEF Bump, FaultThreshold

\* The trigger recorded for a transition is always a domain of the enum.
LEMMA TriggerDomainType ==
  ASSUME NEW S \in SUBSET SensorDomain
  PROVE  TriggerDomain(S) \in SensorDomain
<1>1. CASE S = {}
  BY <1>1 DEF TriggerDomain, Invalid, SensorDomain
<1>2. CASE S # {}
  <2>1. DEFINE T == {7 - d : d \in S}
  <2>2. T \in SUBSET SafeState /\ T # {}
    <3>1. \A d \in S : 7 - d \in SafeState
      BY DEF SensorDomain, SafeState
    <3>2. PICK d \in S : TRUE
      BY <1>2
    <3>3. QED
      BY <3>1, <3>2, Zenon
  <2>3. PICK t \in T : \A u \in T : u <= t
    BY <2>2, MostSevereIsGreatest
  <2>4. PICK d \in S : t = 7 - d
    BY <2>3
  <2>5. \A e \in S : d <= e
    <3>1. \A e \in S : 7 - e \in T
      OBVIOUS
    <3>2. \A e \in S : 7 - e <= 7 - d
      BY <2>3, <2>4, <3>1
    <3>3. S \subseteq 0..7
      BY DEF SensorDomain
    <3>4. QED
      BY <3>2, <3>3
  <2>6. QED
    BY <1>2, <2>5 DEF TriggerDomain
<1>3. QED
  BY <1>1, <1>2

\* A cycle's bitmasks and counters are well typed.  It only adds failures, and
\* the counts that it does not carry to 0 only rise.
LEMMA ScanEffect ==
  ASSUME TypeOK, ScanTimeouts, UpdateBitmasks
  PROVE  /\ health' \in [Domains -> Health]
         /\ faultCount' \in [Domains -> 0..(FaultModulus - 1)]
         /\ faultBitmask' = FailedDomains'
         /\ faultBitmask' \in SUBSET Domains
         /\ activeBitmask' \in SUBSET Domains
         /\ FailedDomains \subseteq FailedDomains'
         /\ \A d \in Domains : faultCount[d] <= faultCount'[d] \/ d \in Carried
         /\ \A d \in Domains :
              \/ health'[d] = health[d] /\ faultCount'[d] = faultCount[d]
              \/ health'[d] = "failed" /\ (faultCount'[d] = 0 => d \in Carried)
<1>1. DEFINE late == {d \in Domains : age[d] > SensorTimeout
                                      /\ health[d] # "failed"}
<1>2. /\ health' = [d \in Domains |-> IF d \in late THEN "failed" ELSE health[d]]
      /\ faultCount' = [d \in Domains |->
                          IF d \in late THEN Bump(faultCount[d]) ELSE faultCount[d]]
  BY DEF ScanTimeouts
<1>3. \A d \in Domains : faultCount[d] \in 0..(FaultModulus - 1)
  BY DEF TypeOK
<1>4. health' \in [Domains -> Health]
  BY <1>2 DEF TypeOK, Health
<1>5. faultCount' \in [Domains -> 0..(FaultModulus - 1)]
  BY <1>2, <1>3, BumpType
<1>6. ASSUME NEW d \in Domains, d \in late
      PROVE  /\ faultCount[d] <= faultCount'[d] \/ d \in Carried
             /\ health'[d] = "failed" /\ (faultCount'[d] = 0 => d \in Carried)
  <2>1. health'[d] = "failed" /\ faultCount'[d] = Bump(faultCount[d])
    BY <1>2, <1>6
  <2>2. /\ \/ faultCount[d] <= faultCount'[d]
           \/ faultCount[d] = FaultModulus - 1 /\ faultCount'[d] = 0
        /\ faultCount'[d] = 0 => faultCount[d] = FaultModulus - 1
    BY <1>3, <2>1, BumpType
  <2>3. QED
    BY <2>1, <2>2 DEF Carried
<1>7. ASSUME NEW d \in Domains, d \notin late
      PROVE  /\ faultCount[d] <= faultCount'[d]
             /\ health'[d] = health[d] /\ faultCount'[d] = faultCount[d]
  BY <1>2, <1>3, <1>7, NumbersAssumption
<1>8. FailedDomains \subseteq FailedDomains'
  BY <1>2 DEF FailedDomains
<1>9. /\ faultBitmask' = FailedDomains'
      /\ faultBitmask' \in SUBSET Domains
      /\ activeBitmask' \in SUBSET Domains
  BY DEF UpdateBitmasks, FailedDomains
<1>10. \A d \in Domains : faultCount[d] <= faultCount'[d] \/ d \in Carried
  BY <1>6, <1>7
<1>11. \A d \in Domains :
         \/ health'[d] = health[d] /\ faultCount'[d] = faultCount[d]
         \/ health'[d] = "failed" /\ (faultCount'[d] = 0 => d \in Carried)
  BY <1>6, <1>7
<1>12. QED
  BY <1>4, <1>5, <1>8, <1>9, <1>10, <1>11

-----------------------------------------------------------------------------
\* LogTransition() keeps the log and its head in range.
LEMMA LogTransitionType ==
  ASSUME TypeOK, transitionCount' \in 0..(CounterModulus - 1),
         NEW from \in SafeState, NEW to \in SafeState,
         NEW trigger \in SensorDomain,
         LogTransition(from, to, trigger)
  PROVE  /\ transitionLog' \in [0..(LogSlots - 1) -> Record]
         /\ logHead' \in 0..(LogSlots - 1)
<1>1. [fromState |-> from, toState |-> to, triggerDomain |-> trigger,
       sequenceNum |-> transitionCount'] \in Record
  BY DEF Record
<1>2. transitionLog' \in [0..(LogSlots - 1) -> Record]
  BY <1>1 DEF TypeOK, LogTransition
<1>3. logHead' \in 0..(LogSlots - 1)
  BY NumbersAssumption DEF TypeOK, LogTransition
<1>4. QED
  BY <1>2, <1>3

\* What ExecuteTransition() leaves has its type.
LEMMA ExecuteTransitionType ==
  ASSUME TypeOK, NEW target \in SafeState, ExecuteTransition(target),
         faultBitmask' \in SUBSET Domains, activeBitmask' \in SUBSET Domains
  PROVE  /\ currentState' \in SafeState
         /\ sequenceNum' \in 0..(CounterModulus - 1)
         /\ transitionCount' \in 0..(CounterModulus - 1)
         /\ lastCommand' \in Command
         /\ transitionLog' \in [0..(LogSlots - 1) -> Record]
         /\ logHead' \in 0..(LogSlots - 1)
<1>1. /\ sequenceNum' \in 0..(CounterModulus - 1)
      /\ transitionCount' \in 0..(CounterModulus - 1)
  BY Next32Type DEF TypeOK, ExecuteTransition
<1>2. lastCommand' \in Command
  BY <1>1 DEF ExecuteTransition, Command
<1>3. TriggerDomain(faultBitmask') \in SensorDomain
  BY DomainsAssumption, TriggerDomainType
<1>4. currentState \in SafeState
  BY DEF TypeOK
<1>5. LogTransition(currentState, target, TriggerDomain(faultBitmask'))
  BY DEF ExecuteTransition
<1>6. /\ transitionLog' \in [0..(LogSlots - 1) -> Record]
      /\ logHead' \in 0..(LogSlots - 1)
  BY <1>1, <1>3, <1>4, <1>5, LogTransitionType
<1>7. QED
  BY <1>1, <1>2, <1>6 DEF ExecuteTransition

-----------------------------------------------------------------------------
\* Arbitrate() keeps the types.
LEMMA ArbitrateType ==
  ASSUME TypeOK, Arbitrate
  PROVE  TypeOK'
<1>1. ScanTimeouts /\ UpdateBitmasks
  BY DEF Arbitrate
<1>2. /\ health' \in [Domains -> Health]
      /\ faultCount' \in [Domains -> 0..(FaultModulus - 1)]
      /\ faultBitmask' \in SUBSET Domains
      /\ activeBitmask' \in SUBSET Domains
  BY <1>1, ScanEffect
<1>3. /\ currentState' \in SafeState
      /\ sequenceNum' \in 0..(CounterModulus - 1)
      /\ transitionCount' \in 0..(CounterModulus - 1)
      /\ lastCommand' \in Command
      /\ transitionLog' \in [0..(LogSlots - 1) -> Record]
      /\ logHead' \in 0..(LogSlots - 1)
  <2>1. DEFINE required == Required(faultBitmask', mandatoryMask, faultCount')
  <2>2. required \in SafeState
    BY RequiredType
  <2>3. CASE UNCHANGED commandVars
    BY <2>3 DEF TypeOK, commandVars
  <2>4. CASE ExecuteTransition(required)
    BY <1>2, <2>2, <2>4, ExecuteTransitionType
  <2>5. QED
    BY <2>3, <2>4 DEF Arbitrate
<1>4. /\ UNCHANGED <<age, initialised, mandatoryMask, listenerCount>>
      /\ StartCycleHistory
  BY DEF Arbitrate, setupVars
<1>5. reported' \in SUBSET Domains /\ wrapped' \in SUBSET Domains
  BY <1>4 DEF StartCycleHistory, TypeOK, Carried
<1>6. QED
  BY <1>2, <1>3, <1>4, <1>5 DEF TypeOK

\* What a report leaves in the history are domains.
LEMMA HistoryType ==
  ASSUME TypeOK, NEW d \in Domains, NEW h, IngestFault(d, h)
  PROVE  reported' \in SUBSET Domains /\ wrapped' \in SUBSET Domains
BY DEF TypeOK, IngestFault, Carried

\* Type correctness of every step.
LEMMA TypeStep ==
  ASSUME TypeOK, [Next]_vars
  PROVE  TypeOK'
<1> USE DEF TypeOK, domainVars, maskVars, commandVars, setupVars, historyVars
<1>1. ASSUME NEW mask \in MandatoryMasks, Initialise(mask)
      PROVE  TypeOK'
  BY <1>1, MasksAssumption DEF Initialise
<1>2. CASE RegisterListener
  BY <1>2, NumbersAssumption DEF RegisterListener
<1>3. ASSUME NEW d \in Domains, NEW h \in Health, IngestFault(d, h)
      PROVE  TypeOK'
  <2>1. health' \in [Domains -> Health]
    BY <1>3 DEF IngestFault
  <2>2. /\ 0 \in 0..(FaultModulus - 1)
        /\ Bump(faultCount[d]) \in 0..(FaultModulus - 1)
    BY NumbersAssumption, BumpType DEF FaultThreshold
  <2>3. faultCount' \in [Domains -> 0..(FaultModulus - 1)]
    <3>1. CASE h = "nominal"
      BY <1>3, <2>2, <3>1 DEF IngestFault
    <3>2. CASE h # "nominal"
      BY <1>3, <2>2, <3>2 DEF IngestFault
    <3>3. QED
      BY <3>1, <3>2
  <2>4. age' \in [Domains -> 0..(SensorTimeout + 1)]
    <3>1. 0 \in 0..(SensorTimeout + 1)
      BY NumbersAssumption
    <3>2. QED
      BY <1>3, <3>1 DEF IngestFault
  <2>5. reported' \in SUBSET Domains /\ wrapped' \in SUBSET Domains
    BY <1>3, HistoryType
  <2>6. QED
    BY <1>3, <2>1, <2>3, <2>4, <2>5 DEF IngestFault
<1>4. ASSUME NEW d \in Domains, RecordHeartbeat(d)
      PROVE  TypeOK'
  <2>1. age' \in [Domains -> 0..(SensorTimeout + 1)]
    BY <1>4, NumbersAssumption DEF RecordHeartbeat
  <2>2. health' \in [Domains -> Health]
    BY <1>4 DEF RecordHeartbeat, Health
  <2>3. QED
    BY <1>4, <2>1, <2>2 DEF RecordHeartbeat
<1>5. CASE Tick
  <2>1. age' \in [Domains -> 0..(SensorTimeout + 1)]
    BY <1>5, NumbersAssumption DEF Tick
  <2>2. QED
    BY <1>5, <2>1 DEF Tick
<1>6. CASE Arbitrate
  BY <1>6, ArbitrateType
<1>7. CASE UNCHANGED vars
  BY <1>7 DEF vars
<1>8. QED
  BY <1>1, <1>2, <1>3, <1>4, <1>5, <1>6, <1>7 DEF Next

\* Type correctness holds in every reachable state.
THEOREM TypeCorrect == Spec => []TypeOK
<1>1. Init => TypeOK
  <2> SUFFICES ASSUME Init PROVE TypeOK
    OBVIOUS
  <2>1. /\ 0 \in 0..(SensorTimeout + 1) /\ 0 \in 0..(FaultModulus - 1)
        /\ 0 \in 0..(CounterModulus - 1) /\ 0 \in 0..(LogSlots - 1)
        /\ 0 \in 0..MaxListeners
    BY NumbersAssumption DEF FaultThreshold
  <2>2. InitialCommand \in Command
    BY <2>1 DEF InitialCommand, Command, SafeState, FullOperation
  <2>3. BlankRecord \in Record
    BY <2>1 DEF BlankRecord, Record, SafeState, SensorDomain, FullOperation,
                EmergencyStop, Invalid
  <2>4. /\ health \in [Domains -> Health]
        /\ age \in [Domains -> 0..(SensorTimeout + 1)]
        /\ faultCount \in [Domains -> 0..(FaultModulus - 1)]
        /\ transitionLog \in [0..(LogSlots - 1) -> Record]
    BY <2>1, <2>3 DEF Init, Health
  <2>5. initialised \in BOOLEAN
    BY Zenon DEF Init
  <2>6. currentState \in SafeState
    BY DEF Init, SafeState, FullOperation
  <2>7. QED
    BY <2>1, <2>2, <2>4, <2>5, <2>6 DEF Init, TypeOK
<1>2. TypeOK /\ [Next]_vars => TypeOK'
  BY TypeStep
<1>3. QED
  BY <1>1, <1>2, PTL DEF Spec

-----------------------------------------------------------------------------
\* The state before Init() stays the one of the constructor.
LEMMA UninitialisedStep ==
  ASSUME Uninitialised, [Next]_vars
  PROVE  Uninitialised'
<1> USE DEF Uninitialised, commandVars, setupVars
<1>1. ASSUME NEW mask \in MandatoryMasks, Initialise(mask)
      PROVE  Uninitialised'
  BY <1>1 DEF Initialise
<1>2. CASE RegisterListener
  BY <1>2 DEF RegisterListener
<1>3. ASSUME NEW d \in Domains, NEW h \in Health, IngestFault(d, h)
      PROVE  Uninitialised'
  BY <1>3 DEF IngestFault
<1>4. ASSUME NEW d \in Domains, RecordHeartbeat(d)
      PROVE  Uninitialised'
  BY <1>4 DEF RecordHeartbeat
<1>5. CASE Tick
  BY <1>5 DEF Tick
<1>6. CASE Arbitrate
  BY <1>6 DEF Arbitrate
<1>7. CASE UNCHANGED vars
  BY <1>7 DEF vars
<1>8. QED
  BY <1>1, <1>2, <1>3, <1>4, <1>5, <1>6, <1>7 DEF Next

\* The fault counts keep telling failed and nominal domains apart, but for the
\* domains whose count wrapped.
LEMMA CountsStep ==
  ASSUME TypeOK, CountsMatchHealth, [Next]_vars
  PROVE  CountsMatchHealth'
<1> USE DEF CountsMatchHealth
<1>1. CASE UNCHANGED <<health, faultCount, wrapped>>
  BY <1>1
<1>2. ASSUME NEW d \in Domains, NEW h \in Health, IngestFault(d, h)
      PROVE  CountsMatchHealth'
  <2>1. ASSUME NEW e \in Domains, e # d
        PROVE  /\ health'[e] = "failed" => faultCount'[e] > 0 \/ e \in wrapped'
               /\ health'[e] = "nominal" => faultCount'[e] = 0
    BY <1>2, <2>1 DEF IngestFault, TypeOK
  <2>2. CASE h = "nominal"
    BY <1>2, <2>1, <2>2 DEF IngestFault, TypeOK
  <2>3. CASE h # "nominal"
    <3>1. health'[d] = h /\ faultCount'[d] = Bump(faultCount[d])
      BY <1>2, <2>3 DEF IngestFault, TypeOK
    <3>2. /\ faultCount[d] \in 0..(FaultModulus - 1)
          /\ faultCount'[d] \in 0..(FaultModulus - 1)
          /\ faultCount'[d] = 0 => faultCount[d] = FaultModulus - 1
      BY <3>1, BumpType DEF TypeOK
    <3>3. faultCount'[d] > 0 \/ d \in Carried
      BY <2>3, <3>1, <3>2, NumbersAssumption DEF Carried
    <3>4. Carried \subseteq wrapped'
      BY <1>2 DEF IngestFault
    <3>5. QED
      BY <2>1, <2>3, <3>1, <3>3, <3>4
  <2>4. QED
    BY <2>2, <2>3
<1>3. ASSUME NEW d \in Domains, RecordHeartbeat(d)
      PROVE  CountsMatchHealth'
  BY <1>3 DEF RecordHeartbeat, historyVars, TypeOK
<1>4. CASE Arbitrate
  <2>1. /\ ScanTimeouts /\ UpdateBitmasks
        /\ wrapped' = {d \in wrapped \cup Carried :
                         health'[d] = "failed" /\ faultCount'[d] = 0}
    BY <1>4 DEF Arbitrate, StartCycleHistory
  <2>2. ASSUME NEW d \in Domains
        PROVE  /\ health'[d] = "failed" => faultCount'[d] > 0 \/ d \in wrapped'
               /\ health'[d] = "nominal" => faultCount'[d] = 0
    <3>1. faultCount'[d] \in 0..(FaultModulus - 1)
      BY <2>1, ScanEffect
    <3>2. faultCount'[d] > 0 \/ faultCount'[d] = 0
      BY <3>1, NumbersAssumption
    <3>3. CASE health'[d] = health[d] /\ faultCount'[d] = faultCount[d]
      BY <2>1, <3>2, <3>3
    <3>4. CASE health'[d] = "failed" /\ (faultCount'[d] = 0 => d \in Carried)
      BY <2>1, <3>2, <3>4
    <3>5. QED
      BY <2>1, <3>3, <3>4, ScanEffect
  <2>3. QED
    BY <2>2
<1>5. QED
  BY <1>1, <1>2, <1>3, <1>4
     DEF Next, vars, domainVars, historyVars, Initialise, RegisterListener, Tick

\* Only a cycle moves the state and the bitmask, and it moves them together.
LEMMA StateMatchesMaskStep ==
  ASSUME TypeOK, Uninitialised, StateMatchesMask, [Next]_vars
  PROVE  StateMatchesMask'
<1>1. CASE UNCHANGED <<currentState, faultBitmask, mandatoryMask>>
  BY <1>1 DEF StateMatchesMask
<1>2. ASSUME NEW mask \in MandatoryMasks, Initialise(mask)
      PROVE  StateMatchesMask'
  <2>1. currentState = MatrixState(faultBitmask)
    BY <1>2 DEF Initialise, Uninitialised, StateMatchesMask, FullOperation,
                MinimalRiskCondition
  <2>2. QED
    BY <1>2, <2>1 DEF Initialise, maskVars, commandVars, StateMatchesMask
<1>3. CASE Arbitrate
  <2>1. DEFINE required == Required(faultBitmask', mandatoryMask, faultCount')
  <2>2. currentState # EmergencyStop
    BY MatrixStateInRange
       DEF StateMatchesMask, MinimalRiskCondition, EmergencyStop
  <2>3. currentState' = required
    BY <1>3, <2>2 DEF Arbitrate, ExecuteTransition, commandVars
  <2>4. mandatoryMask' = mandatoryMask
    BY <1>3 DEF Arbitrate, setupVars
  <2>5. QED
    BY <2>3, <2>4 DEF StateMatchesMask, Required, MandatoryLatch
<1>4. QED
  BY <1>1, <1>2, <1>3
     DEF Next, vars, maskVars, commandVars, setupVars, RegisterListener,
         IngestFault, RecordHeartbeat, Tick

\* Between two cycles a domain that is no longer failed, or whose count drops, is
\* excused from then on.
LEMMA ClaimsGrow ==
  ASSUME TypeOK, CountsMatchHealth, [Next]_vars, ~Arbitrate
  PROVE  /\ FailedDomains \cup Excused \subseteq (FailedDomains \cup Excused)'
         /\ \A e \in Domains : Claimed[e] <= Claimed'[e]
<1>0. /\ \A e \in Domains : faultCount[e] \in 0..(FaultModulus - 1)
      /\ FaultModulus \in Nat /\ FaultModulus > 0
      /\ \A e \in Domains : faultCount'[e] \in 0..(FaultModulus - 1)
  BY TypeStep, NumbersAssumption DEF TypeOK, FaultThreshold
<1>1. CASE UNCHANGED <<health, faultCount, reported, wrapped>>
  BY <1>0, <1>1 DEF FailedDomains, Excused, Claimed
<1>2. ASSUME NEW d \in Domains, NEW h \in Health, IngestFault(d, h)
      PROVE  /\ FailedDomains \cup Excused \subseteq (FailedDomains \cup Excused)'
             /\ \A e \in Domains : Claimed[e] <= Claimed'[e]
  <2>1. /\ reported' = reported \cup {e \in {d} : h # "failed"}
        /\ wrapped' = wrapped \cup Carried
        /\ health' = [health EXCEPT ![d] = h]
        /\ \A e \in Domains : e # d => faultCount'[e] = faultCount[e]
        /\ h # "nominal" => faultCount'[d] = Bump(faultCount[d])
    BY <1>2 DEF IngestFault, TypeOK
  <2>2. Excused \subseteq Excused'
    BY <2>1 DEF Excused
  <2>3. FailedDomains \subseteq (FailedDomains \cup Excused)'
    <3>1. CASE h = "failed"
      BY <2>1, <3>1 DEF FailedDomains, TypeOK
    <3>2. CASE h # "failed"
      BY <2>1, <3>2 DEF FailedDomains, Excused, TypeOK
    <3>3. QED
      BY <3>1, <3>2
  <2>4. ASSUME NEW e \in Domains, e \notin Excused'
        PROVE  faultCount[e] <= faultCount'[e]
    <3>1. CASE e # d
      BY <1>0, <2>1, <3>1
    <3>2. CASE e = d
      <4>1. h = "failed" /\ d \notin Carried
        BY <2>1, <2>4, <3>2 DEF Excused
      <4>2. faultCount'[d] = Bump(faultCount[d]) /\ health'[d] # "nominal"
        BY <2>1, <4>1 DEF TypeOK
      <4>3. QED
        BY <1>0, <3>2, <4>1, <4>2, BumpType DEF Carried
    <3>3. QED
      BY <3>1, <3>2
  <2>5. QED
    BY <1>0, <2>2, <2>3, <2>4 DEF Claimed
<1>3. ASSUME NEW d \in Domains, RecordHeartbeat(d)
      PROVE  /\ FailedDomains \cup Excused \subseteq (FailedDomains \cup Excused)'
             /\ \A e \in Domains : Claimed[e] <= Claimed'[e]
  <2>1. UNCHANGED <<faultCount, reported, wrapped>>
    BY <1>3 DEF RecordHeartbeat, historyVars
  <2>2. \A e \in Domains : Claimed[e] <= Claimed'[e]
    BY <1>0, <2>1 DEF Claimed, Excused
  <2>3. FailedDomains \cup Excused \subseteq (FailedDomains \cup Excused)'
    BY <1>3, <2>1
       DEF RecordHeartbeat, FailedDomains, Excused, TypeOK, CountsMatchHealth
  <2>4. QED
    BY <2>2, <2>3
<1>4. QED
  BY <1>1, <1>2, <1>3
     DEF Next, vars, domainVars, historyVars, Initialise, RegisterListener, Tick

\* The counts that are reckoned with are counts.
LEMMA ClaimedType ==
  TypeOK => Claimed \in [Domains -> Nat] /\ mandatoryMask \in SUBSET Domains
BY NumbersAssumption DEF TypeOK, Claimed, FaultThreshold

\* A cycle publishes what is failed, and until the next one whatever is no longer
\* failed is excused.
LEMMA PublishedStep ==
  ASSUME TypeOK, CountsMatchHealth, PublishedKept, [Next]_vars
  PROVE  PublishedKept'
<1>1. CASE Arbitrate
  BY <1>1, ScanEffect DEF Arbitrate, PublishedKept
<1>2. CASE ~Arbitrate
  <2>1. faultBitmask' = faultBitmask
    BY <1>2
       DEF Next, vars, maskVars, Initialise, RegisterListener, IngestFault,
           RecordHeartbeat, Tick
  <2>2. QED
    BY <1>2, <2>1, ClaimsGrow DEF PublishedKept
<1>3. QED
  BY <1>1, <1>2

\* So what the domains claim does not drop below the state in force.
LEMMA RestrictionStep ==
  ASSUME IInv, [Next]_vars
  PROVE  RestrictionJustified'
<1> USE DEF IInv
<1> DEFINE demanded == Required(FailedDomains \cup Excused, mandatoryMask, Claimed)
<1>1. RestrictionJustified <=> currentState <= demanded
  BY DEF RestrictionJustified, Claimed
<1>2. RestrictionJustified' <=> currentState' <= demanded'
  BY DEF RestrictionJustified, Claimed
<1>3. TypeOK' /\ Claimed' \in [Domains -> Nat]
  <2>1. TypeOK'
    BY TypeStep
  <2>2. (Claimed \in [Domains -> Nat])'
    <3>1. (TypeOK => Claimed \in [Domains -> Nat] /\ mandatoryMask \in SUBSET Domains)'
      BY ClaimedType, PTL
    <3>2. QED
      BY <2>1, <3>1
  <2>3. QED
    BY <2>1, <2>2
<1>4. demanded \in SafeState /\ demanded' \in SafeState /\ currentState \in SafeState
  BY RequiredType DEF TypeOK
<1>5. ASSUME NEW mask \in MandatoryMasks, Initialise(mask)
      PROVE  RestrictionJustified'
  <2>1. currentState' = FullOperation
    BY <1>5 DEF Initialise, Uninitialised, commandVars
  <2>2. QED
    BY <1>2, <1>4, <2>1 DEF SafeState, FullOperation
<1>6. CASE Arbitrate
  <2>1. ScanTimeouts /\ UpdateBitmasks /\ faultBitmask' = FailedDomains'
    BY <1>6, ScanEffect DEF Arbitrate
  <2>2. currentState # EmergencyStop
    BY MatrixStateInRange
       DEF StateMatchesMask, MinimalRiskCondition, EmergencyStop
  <2>3. currentState' = Required(FailedDomains', mandatoryMask, faultCount')
    BY <1>6, <2>1, <2>2 DEF Arbitrate, ExecuteTransition, commandVars
  <2>4. mandatoryMask' = mandatoryMask
    BY <1>6 DEF Arbitrate, setupVars
  <2>5. \A d \in Domains : faultCount'[d] <= Claimed'[d]
    BY <1>3, NumbersAssumption DEF TypeOK, Claimed, FaultThreshold
  <2>6. /\ faultCount' \in [Domains -> Nat]
        /\ mandatoryMask \in SUBSET Domains
        /\ FailedDomains' \subseteq (FailedDomains \cup Excused)'
    BY <1>3, NumbersAssumption DEF TypeOK, FaultThreshold
  <2>7. Required(FailedDomains', mandatoryMask, faultCount')
          <= Required((FailedDomains \cup Excused)', mandatoryMask, Claimed')
    BY <1>3, <2>5, <2>6, RequiredMonotone
  <2>8. QED
    BY <1>2, <2>3, <2>4, <2>7
<1>7. ASSUME ~Arbitrate, UNCHANGED <<currentState, mandatoryMask>>
      PROVE  RestrictionJustified'
  <2>1. Claimed \in [Domains -> Nat] /\ mandatoryMask \in SUBSET Domains
    BY ClaimedType
  <2>2. Required(FailedDomains \cup Excused, mandatoryMask, Claimed)
          <= Required((FailedDomains \cup Excused)', mandatoryMask, Claimed')
    <3>1. /\ FailedDomains \cup Excused \subseteq (FailedDomains \cup Excused)'
          /\ \A e \in Domains : Claimed[e] <= Claimed'[e]
      BY <1>7, ClaimsGrow
    <3>2. QED
      BY <1>3, <2>1, <3>1, RequiredMonotone
  <2>3. demanded <= demanded'
    BY <1>7, <2>2
  <2>4. QED
    BY <1>1, <1>2, <1>4, <1>7, <2>3 DEF SafeState
<1>8. QED
  BY <1>5, <1>6, <1>7
     DEF Next, vars, commandVars, setupVars, RegisterListener, IngestFault,
         RecordHeartbeat, Tick

-----------------------------------------------------------------------------
\* The initial state satisfies the inductive invariant.
LEMMA InitInvariant == TypeOK /\ Init => IInv
<1> SUFFICES ASSUME TypeOK, Init
             PROVE  IInv
  OBVIOUS
<1>1. Uninitialised
  BY DEF Init, Uninitialised
<1>2. CountsMatchHealth
  BY DEF Init, CountsMatchHealth
<1>3. StateMatchesMask
  <2>1. Matching({}) = {FullOperation}
    BY DEF Matching
  <2>2. MatrixState({}) = FullOperation
    BY <2>1, MatchingInRange, MostSevereIsGreatest DEF MatrixState
  <2>3. QED
    BY <2>2 DEF Init, StateMatchesMask
<1>4. PublishedKept
  BY DEF Init, PublishedKept
<1>5. RestrictionJustified
  BY RequiredType DEF Init, RestrictionJustified, SafeState, FullOperation
<1>6. QED
  BY <1>1, <1>2, <1>3, <1>4, <1>5 DEF IInv

\* The inductive invariant holds in every reachable state.
THEOREM Invariance == Spec => []IInv
<1>1. Init /\ TypeOK => IInv
  BY InitInvariant
<1>2. IInv /\ [Next]_vars => IInv'
  <2> SUFFICES ASSUME IInv, [Next]_vars
               PROVE  IInv'
    OBVIOUS
  <2>1. TypeOK'
    BY TypeStep DEF IInv
  <2>2. Uninitialised'
    BY UninitialisedStep DEF IInv
  <2>3. CountsMatchHealth'
    BY CountsStep DEF IInv
  <2>4. StateMatchesMask'
    BY StateMatchesMaskStep DEF IInv
  <2>5. PublishedKept'
    BY PublishedStep DEF IInv
  <2>6. RestrictionJustified'
    BY RestrictionStep
  <2>7. QED
    BY <2>1, <2>2, <2>3, <2>4, <2>5, <2>6 DEF IInv
<1>3. QED
  BY <1>1, <1>2, TypeCorrect, PTL DEF Spec

\* No domain is failed at a count of 0 unless that count wrapped, and none is
\* nominal at another count.
THEOREM CountsCorrect == Spec => []CountsMatchHealth
BY Invariance, PTL DEF IInv

\* The state in force follows from the published bitmask; no emergency stop.
THEOREM StateCorrect == Spec => []StateMatchesMask
BY Invariance, PTL DEF IInv

\* The command in force fits the faults that are published with it, domain by
\* domain.
THEOREM CommandFits == Spec => []CommandFitsFaults
<1> DEFINE InForce == lastCommand.state = currentState
<1>1. Init => InForce
  BY DEF Init, InitialCommand
<1>2. InForce /\ [Next]_vars => InForce'
  <2> SUFFICES ASSUME InForce, [Next]_vars PROVE InForce'
    OBVIOUS
  <2>1. CASE UNCHANGED commandVars
    BY <2>1 DEF commandVars
  <2>2. CASE Arbitrate
    BY <2>1, <2>2 DEF Arbitrate, ExecuteTransition
  <2>3. QED
    BY <2>1, <2>2
       DEF Next, vars, Initialise, RegisterListener, IngestFault,
           RecordHeartbeat, Tick
<1>3. IInv /\ InForce => CommandFitsFaults
  <2> SUFFICES ASSUME IInv, InForce PROVE CommandFitsFaults
    OBVIOUS
  <2> DEFINE f == faultBitmask
             none == [d \in {} |-> 0]
  <2>1. f \in SUBSET SensorDomain
    BY DomainsAssumption DEF IInv, TypeOK
  <2>2. Required(f, {}, none) = MatrixState(f)
    BY DEF Required, MandatoryLatch
  <2>3. \A d \in f : Demand(d, f) \in 0..6 /\ Demand(d, f) <= MatrixState(f)
    <3>1. \A d \in f : Required(f, {}, none) >= Demand(d, f)
      BY <2>1, DemandsMet
    <3>2. \A d \in f : Demand(d, f) \in 0..6
      BY DEF Demand, FullOperation, RadarCameraFallback, LidarCameraFallback,
             LidarRadarFallback, DeadReckoningMode, ReducedDynamics,
             MinimalRiskCondition
    <3>3. MatrixState(f) \in SafeState
      BY MatrixStateInRange
    <3>4. QED
      BY <2>2, <3>1, <3>2, <3>3 DEF SafeState
  <2>4. CASE currentState = MatrixState(f)
    BY <2>1, <2>2, <2>3, <2>4, NothingWithoutDemand DEF CommandFitsFaults
  <2>5. CASE currentState = MinimalRiskCondition /\ f \cap mandatoryMask # {}
    BY <2>3, <2>5 DEF CommandFitsFaults, MinimalRiskCondition
  <2>6. QED
    BY <2>4, <2>5 DEF IInv, StateMatchesMask
<1>4. QED
  BY <1>1, <1>2, <1>3, Invariance, PTL DEF Spec

\* The present health of the domains demands the state in force, if those that
\* reported other than kFailed or whose count wrapped are taken as failed: no
\* restriction outlives its cause.
THEOREM RestrictionCorrect == Spec => []RestrictionJustified
BY Invariance, PTL DEF IInv

\* Without such a domain, before or after the scan, a cycle cannot lower the state.
LEMMA NotLowered ==
  ASSUME IInv, Arbitrate, Excused \cup wrapped' = {}
  PROVE  currentState <= currentState'
<1> USE DEF IInv
<1>1. ScanTimeouts /\ UpdateBitmasks /\ StartCycleHistory
  BY DEF Arbitrate
<1>2. Carried = {}
  <2>1. \A d \in Carried : health'[d] = "failed" /\ faultCount'[d] = 0
    <3>1. ASSUME NEW d \in Carried PROVE health'[d] = "failed" /\ faultCount'[d] = 0
      <4>1. faultCount'[d] # faultCount[d] /\ faultCount'[d] = 0 /\ d \in Domains
        BY NumbersAssumption DEF Carried, FaultThreshold
      <4>2. QED
        BY <1>1, <4>1, ScanEffect
    <3>2. QED
      BY <3>1
  <2>2. QED
    BY <1>1, <2>1 DEF StartCycleHistory
<1>3. /\ faultCount \in [Domains -> Nat] /\ mandatoryMask \in SUBSET Domains
      /\ faultCount' \in [Domains -> Nat]
      /\ FailedDomains \subseteq FailedDomains'
      /\ \A d \in Domains : faultCount[d] <= faultCount'[d]
  <2>1. /\ faultCount' \in [Domains -> 0..(FaultModulus - 1)]
        /\ FailedDomains \subseteq FailedDomains'
        /\ \A d \in Domains : faultCount[d] <= faultCount'[d]
    BY <1>1, <1>2, ScanEffect
  <2>2. 0..(FaultModulus - 1) \subseteq Nat
    BY NumbersAssumption
  <2>3. QED
    BY <2>1, <2>2 DEF TypeOK
<1>4. Required(FailedDomains, mandatoryMask, faultCount)
        <= Required(FailedDomains', mandatoryMask, faultCount')
  BY <1>3, RequiredMonotone
<1>5. currentState <= Required(FailedDomains, mandatoryMask, faultCount)
  <2>1. FailedDomains \cup Excused = FailedDomains
    OBVIOUS
  <2>2. Claimed = faultCount
    BY DEF Claimed, TypeOK
  <2>3. QED
    BY <2>1, <2>2 DEF RestrictionJustified, Claimed
<1>6. currentState' = Required(FailedDomains', mandatoryMask, faultCount')
  <2>1. faultBitmask' = FailedDomains'
    BY <1>1, ScanEffect
  <2>2. currentState # EmergencyStop
    BY MatrixStateInRange
       DEF StateMatchesMask, MinimalRiskCondition, EmergencyStop
  <2>3. QED
    BY <2>1, <2>2 DEF Arbitrate, ExecuteTransition, commandVars
<1>7. /\ Required(FailedDomains, mandatoryMask, faultCount) \in SafeState
      /\ Required(FailedDomains', mandatoryMask, faultCount') \in SafeState
      /\ currentState \in SafeState
  BY RequiredType DEF TypeOK
<1>8. QED
  BY <1>4, <1>5, <1>6, <1>7 DEF SafeState

\* Nothing is released without cause: a domain leaves the published faults only
\* after a report of its own or a wrap of its count, and without either the
\* severity does not fall, for neither heartbeats, nor silence, nor further
\* failures lower it.
THEOREM ReleaseCaused == Spec => ReleasedWithCause
<1> DEFINE Released ==
      /\ faultBitmask \ faultBitmask' \subseteq Excused
      /\ currentState' < currentState => Excused \cup wrapped' # {}
<1>1. IInv /\ [Next]_vars => [Released]_vars
  <2> SUFFICES ASSUME IInv, [Next]_vars PROVE Released \/ UNCHANGED vars
    OBVIOUS
  <2>1. currentState' \in SafeState /\ currentState \in SafeState
    BY TypeStep DEF IInv, TypeOK
  <2>2. CASE Arbitrate
    <3>1. FailedDomains \subseteq faultBitmask'
      BY <2>2, ScanEffect DEF IInv, Arbitrate
    <3>2. faultBitmask \ faultBitmask' \subseteq Excused
      BY <3>1 DEF IInv, PublishedKept
    <3>3. currentState' < currentState => Excused \cup wrapped' # {}
      BY <2>1, <2>2, NotLowered DEF SafeState
    <3>4. QED
      BY <3>2, <3>3
  <2>3. CASE ~Arbitrate
    <3>1. UNCHANGED <<faultBitmask, currentState>>
      BY <2>3
         DEF Next, vars, maskVars, commandVars, Initialise, RegisterListener,
             IngestFault, RecordHeartbeat, Tick
    <3>2. QED
      BY <2>1, <3>1 DEF SafeState
  <2>4. QED
    BY <2>2, <2>3
<1>2. QED
  BY <1>1, Invariance, PTL DEF Spec, ReleasedWithCause

-----------------------------------------------------------------------------
\* The only step that moves the state or the number is a cycle that commands,
\* and it moves both.
LEMMA AuthorityStep ==
  ASSUME [Next]_vars
  PROVE  [Authority!Transition]_<<currentState, sequenceNum>>
<1>1. CASE UNCHANGED <<currentState, sequenceNum>>
  BY <1>1
<1>2. CASE Arbitrate
  <2>1. DEFINE required == Required(faultBitmask', mandatoryMask, faultCount')
  <2>2. required \in SafeState \ {EmergencyStop}
    BY RequiredType
  <2>3. CASE UNCHANGED commandVars
    BY <1>1, <2>3 DEF commandVars
  <2>4. CASE required # currentState /\ ExecuteTransition(required)
    BY <2>2, <2>4
       DEF ExecuteTransition, Next32, Authority!Transition, Authority!NextNumber
  <2>5. QED
    BY <1>2, <2>3, <2>4 DEF Arbitrate
<1>3. QED
  BY <1>1, <1>2
     DEF Next, vars, commandVars, Initialise, RegisterListener, IngestFault,
         RecordHeartbeat, Tick

\* The arbitrator implements the authority that its listeners and the M7 see:
\* every change of the state takes the next number, and no number is spent on
\* anything else.
THEOREM IsAuthority == Spec => ImplementsAuthority
<1>1. Init => Authority!Init
  BY DEF Init, Authority!Init, Authority!FullOperation, FullOperation
<1>2. [Next]_vars => [Authority!Transition]_(Authority!authorityVars)
  BY AuthorityStep DEF Authority!authorityVars
<1>3. QED
  BY <1>1, <1>2, PTL DEF Spec, ImplementsAuthority, Authority!Spec

-----------------------------------------------------------------------------
\* The audit trail.  Place(h, i) is the slot of the record that is i older than
\* the newest, with the head at h; KeptOf(n) is how many records the log still
\* holds when n transitions were counted.
Place(h, i) == (h + LogSlots - 1 - i) % LogSlots

KeptOf(n) == IF n > LogSlots THEN LogSlots ELSE n

\* Commands and transitions are counted apart, but alike.
NumbersAgree ==
  /\ transitionCount = sequenceNum
  /\ lastCommand.sequenceNum = sequenceNum

\* The newest record describes the last command, each other one leads to the
\* record after it.
NewestIsLast ==
  KeptOf(transitionCount) > 0 =>
    LET r == transitionLog[Place(logHead, 0)]
    IN  /\ r.toState = currentState
        /\ r.sequenceNum = lastCommand.sequenceNum
        /\ r.triggerDomain = TriggerDomain(lastCommand.faultBitmask)

RecordsChain ==
  \A i \in 1..(KeptOf(transitionCount) - 1) :
    transitionLog[Place(logHead, i)].toState
      = transitionLog[Place(logHead, i - 1)].fromState

TrailInv == NumbersAgree /\ NewestIsLast /\ RecordsChain

\* Where the records are before and after the head moves on: the slot at the
\* head becomes the newest one, each other record is one place older.
LEMMA PlaceShift ==
  ASSUME NEW h \in 0..(LogSlots - 1)
  PROVE  /\ Place((h + 1) % LogSlots, 0) = h
         /\ \A i \in 1..(LogSlots - 1) :
              /\ Place((h + 1) % LogSlots, i) = Place(h, i - 1)
              /\ Place(h, i - 1) \in 0..(LogSlots - 1) \ {h}
<1> DEFINE L == LogSlots
<1>1. L \in Nat \ {0}
  BY NumbersAssumption
<1>2. /\ \A x \in 0..(L - 1) : x % L = x
      /\ \A x \in L..(2 * L - 1) : x % L = x - L
  BY <1>1
<1>3. (h + 1) % L = IF h + 1 = L THEN 0 ELSE h + 1
  BY <1>1, <1>2
<1>4. Place((h + 1) % L, 0) = h
  <2>1. CASE h + 1 = L
    BY <1>1, <1>2, <1>3, <2>1 DEF Place
  <2>2. CASE h + 1 # L
    BY <1>1, <1>2, <1>3, <2>2 DEF Place
  <2>3. QED
    BY <2>1, <2>2
<1>5. ASSUME NEW i \in 1..(L - 1)
      PROVE  /\ Place((h + 1) % L, i) = Place(h, i - 1)
             /\ Place(h, i - 1) \in 0..(L - 1) \ {h}
  <2>1. Place(h, i - 1) = IF h < i THEN h + L - i ELSE h - i
    BY <1>1, <1>2 DEF Place
  <2>2. CASE h + 1 = L
    BY <1>1, <1>2, <1>3, <2>1, <2>2 DEF Place
  <2>3. CASE h + 1 # L
    BY <1>1, <1>2, <1>3, <2>1, <2>3 DEF Place
  <2>4. QED
    BY <2>2, <2>3
<1>6. QED
  BY <1>4, <1>5

\* One more transition, or the wrap of the count, adds at most one record.
LEMMA KeptStep ==
  ASSUME NEW n \in Nat, NEW m \in Nat, m <= n + 1,
         NEW i \in 1..(KeptOf(m) - 1)
  PROVE  i \in 1..(LogSlots - 1) /\ i \in 1..KeptOf(n)
BY NumbersAssumption DEF KeptOf

\* A transition writes the newest record and moves the others one place back.
LEMMA TransitionTrail ==
  ASSUME TypeOK, TrailInv, NEW target \in SafeState, ExecuteTransition(target)
  PROVE  TrailInv'
<1> DEFINE new == [fromState |-> currentState, toState |-> target,
                   triggerDomain |-> TriggerDomain(faultBitmask'),
                   sequenceNum |-> transitionCount']
<1>1. /\ sequenceNum' = Next32(sequenceNum)
      /\ transitionCount' = Next32(transitionCount)
      /\ currentState' = target
      /\ lastCommand'.sequenceNum = sequenceNum'
      /\ lastCommand'.faultBitmask = faultBitmask'
      /\ transitionLog' = [transitionLog EXCEPT ![logHead] = new]
      /\ logHead' = (logHead + 1) % LogSlots
  BY DEF ExecuteTransition, LogTransition
<1>2. NumbersAgree'
  BY <1>1 DEF TrailInv, NumbersAgree
<1>3. /\ logHead \in 0..(LogSlots - 1) /\ LogSlots \in Nat
      /\ transitionLog \in [0..(LogSlots - 1) -> Record]
      /\ transitionCount \in Nat /\ transitionCount' \in Nat
      /\ transitionCount' <= transitionCount + 1
  BY <1>1, NumbersAssumption DEF TypeOK, Next32
<1>4. transitionLog'[Place(logHead', 0)] = new
  BY <1>1, <1>3, PlaceShift
<1>5. NewestIsLast'
  BY <1>1, <1>2, <1>4 DEF NewestIsLast, NumbersAgree
<1>6. \A i \in 1..(LogSlots - 1) :
        transitionLog'[Place(logHead', i)] = transitionLog[Place(logHead, i - 1)]
  BY <1>1, <1>3, PlaceShift
<1>7. RecordsChain'
  <2> DEFINE k == KeptOf(transitionCount)
  <2> SUFFICES ASSUME NEW i \in 1..(LogSlots - 1), i \in 1..k
               PROVE  transitionLog'[Place(logHead', i)].toState
                        = transitionLog'[Place(logHead', i - 1)].fromState
    BY <1>3, KeptStep DEF RecordsChain, Place
  <2>1. k \in Nat
    BY <1>3 DEF KeptOf
  <2> HIDE DEF k
  <2>2. transitionLog'[Place(logHead', i)] = transitionLog[Place(logHead, i - 1)]
    BY <1>6
  <2>3. CASE i = 1
    <3>1. transitionLog[Place(logHead, 0)].toState = currentState
      BY <2>1, <2>3 DEF TrailInv, NewestIsLast, k
    <3>2. QED
      BY <1>4, <2>2, <2>3, <3>1
  <2>4. CASE i # 1
    <3>1. i - 1 \in 1..(LogSlots - 1) /\ i - 1 \in 1..(k - 1)
      BY <1>3, <2>1, <2>4
    <3>2. transitionLog'[Place(logHead', i - 1)]
            = transitionLog[Place(logHead, (i - 1) - 1)]
      BY <1>6, <3>1
    <3>3. QED
      BY <2>2, <3>1, <3>2 DEF TrailInv, RecordsChain, k
  <2>5. QED
    BY <2>3, <2>4
<1>8. QED
  BY <1>2, <1>5, <1>7 DEF TrailInv

\* What DrainTransitionLog() returns explains the state in force: it ends in it,
\* without a gap, and bears the number of the last command, whatever the size of
\* the log and across the wrap of both counters.
THEOREM LogExplains == Spec => []LogExplainsState
<1>1. Init => TrailInv
  <2> SUFFICES ASSUME Init PROVE TrailInv
    OBVIOUS
  <2>1. transitionCount = 0 /\ sequenceNum = 0 /\ lastCommand.sequenceNum = 0
    BY DEF Init, InitialCommand
  <2>2. KeptOf(transitionCount) = 0
    BY <2>1, NumbersAssumption DEF KeptOf
  <2>3. QED
    BY <2>1, <2>2 DEF TrailInv, NumbersAgree, NewestIsLast, RecordsChain
<1>2. TypeOK /\ TrailInv /\ [Next]_vars => TrailInv'
  <2> SUFFICES ASSUME TypeOK, TrailInv, [Next]_vars
               PROVE  TrailInv'
    OBVIOUS
  <2>1. CASE UNCHANGED commandVars
    BY <2>1 DEF commandVars, TrailInv, NumbersAgree, NewestIsLast, RecordsChain
  <2>2. CASE Arbitrate
    BY <2>1, <2>2, RequiredType, TransitionTrail DEF Arbitrate
  <2>3. QED
    BY <2>1, <2>2
       DEF Next, vars, Initialise, RegisterListener, IngestFault,
           RecordHeartbeat, Tick
<1>3. TypeOK /\ TrailInv => LogExplainsState
  <2> SUFFICES ASSUME TypeOK, TrailInv, NEW i \in DOMAIN Drained(LogSlots)
               PROVE  LET drained == Drained(LogSlots)
                      IN  IF i = 0
                          THEN /\ drained[0].toState = currentState
                               /\ drained[0].sequenceNum = lastCommand.sequenceNum
                               /\ drained[0].triggerDomain
                                    = TriggerDomain(lastCommand.faultBitmask)
                          ELSE drained[i].toState = drained[i - 1].fromState
    BY DEF LogExplainsState
  <2> DEFINE k == KeptOf(transitionCount)
  <2>1. k \in Nat /\ k <= LogSlots
    BY NumbersAssumption DEF TypeOK, KeptOf
  <2>2. Drained(LogSlots) = [j \in 0..(k - 1) |-> transitionLog[Place(logHead, j)]]
    BY <2>1, NumbersAssumption DEF Drained, KeptOf, Place, TypeOK
  <2> HIDE DEF k
  <2>3. i \in 0..(k - 1)
    BY <2>2
  <2>4. CASE i = 0
    BY <2>1, <2>2, <2>3, <2>4 DEF TrailInv, NewestIsLast, k
  <2>5. CASE i # 0
    BY <2>1, <2>2, <2>3, <2>5 DEF TrailInv, RecordsChain, k
  <2>6. QED
    BY <2>4, <2>5
<1>4. QED
  BY <1>1, <1>2, <1>3, TypeCorrect, PTL DEF Spec
=============================================================================
