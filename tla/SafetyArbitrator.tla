-------------------------- MODULE SafetyArbitrator --------------------------
(***************************************************************************)
(* SafetyArbitrator of formal-verification/vendor/autosar-soa-gateway: the *)
(* health of every sensor domain, the periodic arbitration cycle and the   *)
(* commands and log records that a change of the safe state produces.      *)
(*                                                                         *)
(* Every public call is one action here: the calls of the safety loop and  *)
(* of the ingestion handlers interleave in any order but do not overlap.   *)
(*                                                                         *)
(* Abstractions.  CLOCK_MONOTONIC and the heartbeat stamps are replaced by *)
(* the age of the last heartbeat, in ticks, which stops at                 *)
(* SensorTimeout + 1 (older than the timeout, the only thing that is ever  *)
(* asked of it).  Fault counts wrap at FaultModulus, command and           *)
(* transition counters at CounterModulus (2^32 in the code, both).  DTC    *)
(* codes and time stamps are left out.                                     *)
(***************************************************************************)
EXTENDS DegradationMatrix, FiniteSets

CONSTANTS
  Domains,          \* the slots of domains_ (0..7 in the code)
  MandatoryMasks,   \* the masks that Init() may be called with
  SensorTimeout,    \* kSensorTimeoutMs, in ticks of the clock
  FaultModulus,     \* 2^32: where the uint32 fault counts wrap
  CounterModulus,   \* 2^32: where the other uint32 counters wrap
  LogSlots,         \* kMaxTransitionLog
  MaxListeners      \* kMaxArbitratorListeners

ASSUME DomainsAssumption == Domains \subseteq SensorDomain
ASSUME MasksAssumption == MandatoryMasks \subseteq SUBSET Domains
ASSUME NumbersAssumption ==
  /\ SensorTimeout \in Nat
  /\ FaultModulus \in Nat /\ FaultModulus > FaultThreshold
  /\ CounterModulus \in Nat \ {0, 1}
  /\ LogSlots \in Nat \ {0}
  /\ MaxListeners \in Nat

Health == {"nominal", "degraded", "failed", "unknown"}

Command ==
  [state : SafeState, activeDomains : SUBSET Domains,
   faultBitmask : SUBSET Domains, sequenceNum : 0..(CounterModulus - 1)]

Record ==
  [fromState : SafeState, toState : SafeState,
   triggerDomain : SensorDomain, sequenceNum : 0..(CounterModulus - 1)]

VARIABLES
  initialised,
  mandatoryMask,
  health,           \* [Domains -> Health]
  age,              \* ticks since the last heartbeat
  faultCount,
  faultBitmask,
  activeBitmask,
  currentState,
  sequenceNum,
  transitionCount,
  lastCommand,
  transitionLog,    \* [0..LogSlots - 1 -> Record]
  logHead,
  listenerCount,
  reported,         \* history: the domains that sent a report other than kFailed
                    \* since the last arbitration cycle
  wrapped           \* history: the domains whose count was carried to 0, since that
                    \* cycle or, if they have stood failed at 0 ever since, before

domainVars == <<health, age, faultCount>>
maskVars == <<faultBitmask, activeBitmask>>
commandVars == <<currentState, sequenceNum, transitionCount, lastCommand,
                 transitionLog, logHead>>
setupVars == <<initialised, mandatoryMask, listenerCount>>
historyVars == <<reported, wrapped>>
vars == <<domainVars, maskVars, commandVars, setupVars, historyVars>>

-----------------------------------------------------------------------------
\* The constructor, and the command that Init() leaves in lastCommand_.
InitialCommand ==
  [state |-> FullOperation, activeDomains |-> Domains, faultBitmask |-> {},
   sequenceNum |-> 0]

\* SafeStateTransition{}: its toState defaults to kEmergencyStop.
BlankRecord ==
  [fromState |-> FullOperation, toState |-> EmergencyStop,
   triggerDomain |-> Invalid, sequenceNum |-> 0]

Init ==
  /\ initialised = FALSE
  /\ mandatoryMask = {}
  /\ health = [d \in Domains |-> "unknown"]
  /\ age = [d \in Domains |-> 0]
  /\ faultCount = [d \in Domains |-> 0]
  /\ faultBitmask = {}
  /\ activeBitmask = Domains
  /\ currentState = FullOperation
  /\ sequenceNum = 0
  /\ transitionCount = 0
  /\ lastCommand = InitialCommand
  /\ transitionLog = [i \in 0..(LogSlots - 1) |-> BlankRecord]
  /\ logHead = 0
  /\ listenerCount = 0
  /\ reported = {}
  /\ wrapped = {}

\* Init(mandatoryDomains); the second call returns kAlreadyRegistered.  No
\* other method does anything before it, so the fields it resets still hold
\* what the constructor gave them, and the heartbeat ages start here.
Initialise(mask) ==
  /\ ~initialised
  /\ initialised' = TRUE
  /\ mandatoryMask' = mask
  /\ UNCHANGED <<domainVars, maskVars, commandVars, listenerCount,
                 historyVars>>

\* RegisterListener(listener) with a non-null callback; kRegistryFull beyond.
RegisterListener ==
  /\ initialised
  /\ listenerCount < MaxListeners
  /\ listenerCount' = listenerCount + 1
  /\ UNCHANGED <<initialised, mandatoryMask, domainVars, maskVars,
                 commandVars, historyVars>>

-----------------------------------------------------------------------------
\* fetch_add(1) on a fault count, which goes from 2^32 - 1 to 0.
Bump(n) == IF n + 1 = FaultModulus THEN 0 ELSE n + 1

\* The domains whose count is carried to 0 by this step.
Carried ==
  {d \in Domains : /\ health'[d] # "nominal"
                   /\ faultCount[d] = FaultModulus - 1
                   /\ faultCount'[d] = 0}

\* IngestFault(fault), and the two calls that only wrap it: InjectFault() and
\* IngestSoaEvent() of a payload of at least 12 bytes.  Domain indices from
\* kNumSensorDomains on are refused (kInvalidArgument).  A report of kUnknown
\* or of a byte outside the enum behaves as one of kDegraded does, which stands
\* for them in Next: neither kNominal nor kFailed.
IngestFault(d, h) ==
  /\ initialised
  /\ health' = [health EXCEPT ![d] = h]
  /\ IF h = "nominal"
     THEN /\ faultCount' = [faultCount EXCEPT ![d] = 0]
          /\ age' = [age EXCEPT ![d] = 0]
     ELSE /\ faultCount' = [faultCount EXCEPT ![d] = Bump(@)]
          /\ UNCHANGED age
  /\ reported' = reported \cup {e \in {d} : h # "failed"}
  /\ wrapped' = wrapped \cup Carried
  /\ UNCHANGED <<maskVars, commandVars, setupVars>>

\* Mutant: recovery while the count is below the threshold, as the comment in
\* RecordHeartbeat() words it.
RecordHeartbeatBelowThreshold(d) ==
  /\ initialised
  /\ age' = [age EXCEPT ![d] = 0]
  /\ health' = IF faultCount[d] < FaultThreshold
               THEN [health EXCEPT ![d] = "nominal"] ELSE health
  /\ UNCHANGED <<faultCount, maskVars, commandVars, setupVars, historyVars>>

\* RecordHeartbeat(domain): the stamp, and kNominal if no fault is counted.
RecordHeartbeat(d) ==
  /\ initialised
  /\ age' = [age EXCEPT ![d] = 0]
  /\ health' = IF faultCount[d] = 0
               THEN [health EXCEPT ![d] = "nominal"] ELSE health
  /\ UNCHANGED <<faultCount, maskVars, commandVars, setupVars, historyVars>>

\* Time passes: GetMonotonicMs() grows.
Tick ==
  /\ initialised
  /\ \E d \in Domains : age[d] <= SensorTimeout
  /\ age' = [d \in Domains |->
               IF age[d] <= SensorTimeout THEN age[d] + 1 ELSE age[d]]
  /\ UNCHANGED <<health, faultCount, maskVars, commandVars, setupVars, historyVars>>

-----------------------------------------------------------------------------
\* Mutants: the promotion is not counted; only nominal domains are promoted.
ScanTimeoutsUncounted ==
  LET late == {d \in Domains : age[d] > SensorTimeout /\ health[d] # "failed"}
  IN  /\ health' = [d \in Domains |-> IF d \in late THEN "failed" ELSE health[d]]
      /\ UNCHANGED faultCount

ScanTimeoutsNominal ==
  LET late == {d \in Domains : age[d] > SensorTimeout /\ health[d] = "nominal"}
  IN  /\ health' = [d \in Domains |-> IF d \in late THEN "failed" ELSE health[d]]
      /\ faultCount' = [d \in Domains |->
                          IF d \in late THEN Bump(faultCount[d]) ELSE faultCount[d]]

\* ScanTimeouts(): a domain silent for more than kSensorTimeoutMs becomes
\* kFailed, which is counted as one fault however long the silence lasts.
ScanTimeouts ==
  LET late == {d \in Domains : age[d] > SensorTimeout /\ health[d] # "failed"}
  IN  /\ health' = [d \in Domains |-> IF d \in late THEN "failed" ELSE health[d]]
      /\ faultCount' = [d \in Domains |->
                          IF d \in late THEN Bump(faultCount[d]) ELSE faultCount[d]]

\* UpdateBitmasks(), from the health that ScanTimeouts() leaves.
UpdateBitmasks ==
  /\ faultBitmask' = {d \in Domains : health'[d] = "failed"}
  /\ activeBitmask' = {d \in Domains : health'[d] = "nominal"}

\* Unsigned 32-bit increment.
Next32(n) == IF n + 1 = CounterModulus THEN 0 ELSE n + 1

\* Mutants: the head runs off the log; the record is numbered too early.
LogTransitionUnwrapped(from, to, trigger) ==
  /\ transitionLog' =
       [transitionLog EXCEPT ![logHead] =
          [fromState |-> from, toState |-> to, triggerDomain |-> trigger,
           sequenceNum |-> transitionCount']]
  /\ logHead' = logHead + 1

LogTransitionEarly(from, to, trigger) ==
  /\ transitionLog' =
       [transitionLog EXCEPT ![logHead] =
          [fromState |-> from, toState |-> to, triggerDomain |-> trigger,
           sequenceNum |-> transitionCount]]
  /\ logHead' = (logHead + 1) % LogSlots

\* LogTransition(): called after transitionCount_ was incremented.
LogTransition(from, to, trigger) ==
  /\ transitionLog' =
       [transitionLog EXCEPT ![logHead] =
          [fromState |-> from, toState |-> to, triggerDomain |-> trigger,
           sequenceNum |-> transitionCount']]
  /\ logHead' = (logHead + 1) % LogSlots

\* ExecuteTransition(target).  The new state is committed whatever
\* IpcBridge::Send() answers, so the answer is no part of this module:
\* lastCommand' is the command handed to it.  Listeners are told last and
\* change nothing here.
ExecuteTransition(target) ==
  /\ sequenceNum' = Next32(sequenceNum)
  /\ currentState' = target
  /\ lastCommand' = [state |-> target, activeDomains |-> activeBitmask',
                     faultBitmask |-> faultBitmask',
                     sequenceNum |-> Next32(sequenceNum)]
  /\ transitionCount' = Next32(transitionCount)
  /\ LogTransition(currentState, target, TriggerDomain(faultBitmask'))

\* What the history keeps from one cycle to the next.
StartCycleHistory ==
  /\ reported' = {}
  /\ wrapped' = {d \in wrapped \cup Carried :
                   health'[d] = "failed" /\ faultCount'[d] = 0}

\* Mutant: no fast path, every cycle commands.
ArbitrateEveryCycle ==
  /\ initialised
  /\ ScanTimeouts
  /\ UpdateBitmasks
  /\ ExecuteTransition(Required(faultBitmask', mandatoryMask, faultCount'))
  /\ StartCycleHistory
  /\ UNCHANGED <<age, setupVars>>

\* Arbitrate().  The result code (kOk, kTimeout for a transition of more than
\* 50 ms, kE2eViolation for a refused command) is returned after every change.
Arbitrate ==
  /\ initialised
  /\ ScanTimeouts
  /\ UpdateBitmasks
  /\ LET required == Required(faultBitmask', mandatoryMask, faultCount')
     IN  IF required = currentState \/ currentState = EmergencyStop
         THEN UNCHANGED commandVars
         ELSE ExecuteTransition(required)
  /\ StartCycleHistory
  /\ UNCHANGED <<age, setupVars>>

Next ==
  \/ \E mask \in MandatoryMasks : Initialise(mask)
  \/ RegisterListener
  \/ \E d \in Domains \cap ValidDomain, h \in Health \ {"unknown"} : IngestFault(d, h)
  \/ \E d \in Domains \cap ValidDomain : RecordHeartbeat(d)
  \/ Tick
  \/ Arbitrate

Spec == Init /\ [][Next]_vars

\* The main safety loop calls Arbitrate() every 10 ms.
Fairness == WF_vars(Arbitrate)

FairSpec == Spec /\ Fairness

\* DrainTransitionLog(buffer, bufferSize), newest record first.
Drained(bufferSize) ==
  LET count == IF transitionCount > LogSlots THEN LogSlots ELSE transitionCount
      toCopy == IF count < bufferSize THEN count ELSE bufferSize
  IN  [i \in 0..(toCopy - 1) |->
         transitionLog[(logHead + LogSlots - 1 - i) % LogSlots]]

-----------------------------------------------------------------------------
TypeOK ==
  /\ initialised \in BOOLEAN
  /\ mandatoryMask \in SUBSET Domains
  /\ health \in [Domains -> Health]
  /\ age \in [Domains -> 0..(SensorTimeout + 1)]
  /\ faultCount \in [Domains -> 0..(FaultModulus - 1)]
  /\ faultBitmask \in SUBSET Domains
  /\ activeBitmask \in SUBSET Domains
  /\ currentState \in SafeState
  /\ sequenceNum \in 0..(CounterModulus - 1)
  /\ transitionCount \in 0..(CounterModulus - 1)
  /\ lastCommand \in Command
  /\ transitionLog \in [0..(LogSlots - 1) -> Record]
  /\ logHead \in 0..(LogSlots - 1)
  /\ listenerCount \in 0..MaxListeners
  /\ reported \in SUBSET Domains
  /\ wrapped \in SUBSET Domains

\* RecordHeartbeat() revives a domain whose fault count is 0.  No domain is
\* kFailed with nothing counted against it, unless 2^32 faults were, nor
\* kNominal with something counted.
CountsMatchHealth ==
  \A d \in Domains :
    /\ health[d] = "failed" => faultCount[d] > 0 \/ d \in wrapped
    /\ health[d] = "nominal" => faultCount[d] = 0

\* The safe state in force is the one the degradation matrix demands for the
\* published fault bitmask, or MRC with a mandatory domain in that bitmask;
\* in particular the emergency stop is never reached (finding F-03).
StateMatchesMask ==
  \/ currentState = MatrixState(faultBitmask)
  \/ /\ currentState = MinimalRiskCondition
     /\ faultBitmask \cap mandatoryMask # {}

\* The header's matrix, of the command in force: commands are sent on a change
\* only, yet the last one restricts the vehicle at least as the loss of each
\* domain in the published bitmask demands, and no more than the worst of these
\* unless a mandatory domain is lost.
CommandFitsFaults ==
  /\ \A d \in faultBitmask : Demand(d, faultBitmask) <= lastCommand.state
  /\ \/ /\ lastCommand.state = MinimalRiskCondition
        /\ faultBitmask \cap mandatoryMask # {}
     \/ \E d \in faultBitmask : lastCommand.state = Demand(d, faultBitmask)
     \/ faultBitmask = {} /\ lastCommand.state = FullOperation

\* The audit trail: what DrainTransitionLog() returns starts at the state in
\* force, each record continues the one before it, and the newest record
\* bears the number of the last command, although the two are counted apart.
LogExplainsState ==
  LET drained == Drained(LogSlots)
  IN  \A i \in DOMAIN drained :
        IF i = 0
        THEN /\ drained[0].toState = currentState
             /\ drained[0].sequenceNum = lastCommand.sequenceNum
             /\ drained[0].triggerDomain = TriggerDomain(lastCommand.faultBitmask)
        ELSE drained[i].toState = drained[i - 1].fromState

\* No restriction outlives its cause, nor is it dropped early: take the domains
\* that sent a report other than kFailed, or whose count wrapped, as failed as
\* can be, and all others as they are; that demands the state in force.
FailedDomains == {d \in Domains : health[d] = "failed"}

Excused == reported \cup wrapped

RestrictionJustified ==
  currentState <=
    Required(FailedDomains \cup Excused, mandatoryMask,
             [d \in Domains |->
                IF d \in Excused THEN FaultModulus - 1 ELSE faultCount[d]])

\* A cycle drops a domain from the published faults only after a report other
\* than kFailed of that very domain, or a wrap of its count, and lowers the
\* severity only after such a report or wrap of some domain: heartbeats, silence
\* and further failures release nothing.
ReleasedWithCause ==
  [][/\ faultBitmask \ faultBitmask' \subseteq Excused
     /\ currentState' < currentState => Excused \cup wrapped' # {}]_vars

\* To its listeners and the M7 the arbitrator is a SafeStateAuthority: the
\* state changes only with a new command number, numbers are spent on nothing
\* else, and the emergency stop is never commanded.
Authority ==
  INSTANCE SafeStateAuthority WITH States <- SafeState \ {EmergencyStop}

ImplementsAuthority == Authority!Spec

\* kSensorTimeoutMs: a domain that falls silent is in the fault bitmask of a
\* later cycle unless it comes back, degraded reports notwithstanding.
SilenceIsFaulted ==
  \A d \in Domains :
    age[d] > SensorTimeout
      ~> (d \in faultBitmask \/ age[d] <= SensorTimeout)

\* Once every domain that can report is nominal and in time for good, full
\* operation returns, although the slot of kInvalid stays failed.
FullOperationReturns ==
  <>[](\A d \in Domains \cap ValidDomain :
         health[d] = "nominal" /\ age[d] <= SensorTimeout)
    => <>[](currentState = FullOperation)
=============================================================================
