----------------------- MODULE SotifPlausibilityGate -----------------------
(***************************************************************************)
(* SotifPlausibilityGate of sotif-gate: the checks that a perception       *)
(* candidate has to pass, the replay guard, the evidence counters and the  *)
(* safe-state command that every rejection sends.                          *)
(*                                                                         *)
(* Evaluate() is split where it goes from one of its atomic fields to the  *)
(* next, so that, if Callers has more than one element, calls of several   *)
(* threads interleave.                                                     *)
(*                                                                         *)
(* Abstractions.  Confidences, drifts and their thresholds are integers on *)
(* a scale where One stands for 1.0F, or NaN for a value that is not       *)
(* finite.  The three actuation fields, which no check looks at, are left  *)
(* out.  A command is its sequence number and its sessionId; the rest of   *)
(* it is constant.  Whether the ring has room for it makes no difference   *)
(* to the gate.  Counters wrap at CounterModulus (2^32).                   *)
(***************************************************************************)
EXTENDS Integers, FiniteSets

CONSTANTS
  Callers,          \* the threads that call Evaluate()
  Candidates,       \* the candidates it may be called with
  Configs,          \* the configurations that Init() may be called with
  DefaultConfig,    \* SotifPlausibilityConfig{}
  Clock,            \* the values of nowMs
  One,              \* 1.0F
  NaN,              \* any float that is not finite
  CounterModulus,   \* 2^32: where the uint32 counters wrap
  None              \* no command sent yet, no candidate under evaluation

Reading == Int \cup {NaN}

Candidate ==
  [primaryConfidence : Reading, secondaryConfidence : Reading,
   calibrationDriftMetric : Reading, timestampMs : Nat, sequenceNum : Nat]

Config ==
  [maxConfidenceDisagreement : Reading, minConfidence : Reading,
   maxCalibrationDrift : Reading, maxInputAgeMs : Nat]

ASSUME CandidatesAssumption == Candidates \subseteq Candidate
ASSUME ConfigsAssumption == Configs \subseteq Config /\ DefaultConfig \in Config
ASSUME ClockAssumption == Clock \subseteq Nat
ASSUME ScaleAssumption == One \in Nat \ {0} /\ NaN \notin Int
ASSUME ModulusAssumption == CounterModulus \in Nat \ {0, 1}
ASSUME NoneAssumption == None \notin Candidate

RejectReason ==
  {"kNone", "kInvalidInput", "kStaleInput", "kSequenceAnomaly",
   "kCrossEstimateDisagreement", "kLowConfidence", "kCalibrationDrift"}

VARIABLES
  initialised,
  config,
  lastSequence,
  hasPriorSample,
  lastRejectReason,
  acceptCount,
  rejectCount,
  escalationSequence,
  sent,             \* the command handed to ipc_->Send() last
  pc,               \* where each caller is in Evaluate()
  candidate,        \* the argument of its call
  reason,           \* the local variable reason
  seq,              \* the local variable seq of EscalateToSafeState()
  result,           \* what its last call returned
  accepted          \* history: the sequence numbers accepted so far

guardVars == <<lastSequence, hasPriorSample>>
countVars == <<acceptCount, rejectCount, escalationSequence>>
setupVars == <<initialised, config>>
vars == <<setupVars, guardVars, lastRejectReason, countVars, sent, pc,
          candidate, reason, seq, result, accepted>>

-----------------------------------------------------------------------------
IsFinite(v) == v # NaN

\* The conditions under which Init() takes a configuration.
ValidConfig(cfg) ==
  /\ IsFinite(cfg.maxConfidenceDisagreement) /\ cfg.maxConfidenceDisagreement >= 0
  /\ IsFinite(cfg.minConfidence) /\ cfg.minConfidence >= 0 /\ cfg.minConfidence <= One
  /\ IsFinite(cfg.maxCalibrationDrift) /\ cfg.maxCalibrationDrift >= 0

\* Mutant: an equal sequence number passes.
FreshnessAndSequenceEqual(c, nowMs) ==
  IF nowMs < c.timestampMs THEN "kInvalidInput"
  ELSE IF nowMs - c.timestampMs > config.maxInputAgeMs THEN "kStaleInput"
  ELSE IF hasPriorSample /\ c.sequenceNum < lastSequence THEN "kSequenceAnomaly"
  ELSE "kNone"

\* CheckFreshnessAndSequence()
CheckFreshnessAndSequence(c, nowMs) ==
  IF nowMs < c.timestampMs THEN "kInvalidInput"
  ELSE IF nowMs - c.timestampMs > config.maxInputAgeMs THEN "kStaleInput"
  ELSE IF hasPriorSample /\ c.sequenceNum <= lastSequence THEN "kSequenceAnomaly"
  ELSE "kNone"

InUnit(v) == IsFinite(v) /\ v >= 0 /\ v <= One
Distance(a, b) == IF a >= b THEN a - b ELSE b - a

\* Mutant: only the primary confidence has a floor.
CheckPrimaryConfidence(c) ==
  IF ~InUnit(c.primaryConfidence) \/ ~InUnit(c.secondaryConfidence)
  THEN "kInvalidInput"
  ELSE IF c.primaryConfidence < config.minConfidence THEN "kLowConfidence"
  ELSE IF Distance(c.primaryConfidence, c.secondaryConfidence)
            > config.maxConfidenceDisagreement
  THEN "kCrossEstimateDisagreement"
  ELSE "kNone"

\* CheckCrossEstimateConfidence()
CheckCrossEstimateConfidence(c) ==
  IF ~InUnit(c.primaryConfidence) \/ ~InUnit(c.secondaryConfidence)
  THEN "kInvalidInput"
  ELSE IF \/ c.primaryConfidence < config.minConfidence
          \/ c.secondaryConfidence < config.minConfidence
  THEN "kLowConfidence"
  ELSE IF Distance(c.primaryConfidence, c.secondaryConfidence)
            > config.maxConfidenceDisagreement
  THEN "kCrossEstimateDisagreement"
  ELSE "kNone"

\* CheckCalibrationDrift()
CheckCalibrationDrift(c) ==
  IF ~IsFinite(c.calibrationDriftMetric) \/ c.calibrationDriftMetric < 0
  THEN "kInvalidInput"
  ELSE IF c.calibrationDriftMetric > config.maxCalibrationDrift
  THEN "kCalibrationDrift"
  ELSE "kNone"

\* The first check that fails names the reason.
Verdict(c, nowMs) ==
  LET first == CheckFreshnessAndSequence(c, nowMs)
      second == CheckCrossEstimateConfidence(c)
  IN  IF first # "kNone" THEN first
      ELSE IF second # "kNone" THEN second
      ELSE CheckCalibrationDrift(c)

\* Mutant: a counter wider than its uint32.
NextCountWide(n) == n + 1

\* fetch_add(1) on a uint32 counter.
NextCount(n) == IF n + 1 = CounterModulus THEN 0 ELSE n + 1

-----------------------------------------------------------------------------
\* The constructor.
Init ==
  /\ initialised = FALSE
  /\ config = DefaultConfig
  /\ lastSequence = 0
  /\ hasPriorSample = FALSE
  /\ lastRejectReason = "kNone"
  /\ acceptCount = 0
  /\ rejectCount = 0
  /\ escalationSequence = 0
  /\ sent = None
  /\ pc = [t \in Callers |-> "idle"]
  /\ candidate = [t \in Callers |-> None]
  /\ seq = [t \in Callers |-> 0]
  /\ reason = [t \in Callers |-> "kInvalidInput"]
  /\ result = [t \in Callers |-> "none"]
  /\ accepted = {}

\* Init(config), between calls of Evaluate(): config_ is not atomic.  It may
\* come again later, and leaves guard and counters as they are.
Initialise(cfg) ==
  /\ \A t \in Callers : pc[t] = "idle"
  /\ ValidConfig(cfg)
  /\ initialised' = TRUE
  /\ config' = cfg
  /\ UNCHANGED <<guardVars, lastRejectReason, countVars, sent, pc, candidate,
                 reason, seq, result, accepted>>

\* Evaluate() before Init(): kNotInitialized.
EvaluateTooEarly(t) ==
  /\ ~initialised
  /\ result' = [result EXCEPT ![t] = "kNotInitialized"]
  /\ UNCHANGED <<setupVars, guardVars, lastRejectReason, countVars, sent, pc,
                 candidate, reason, seq, accepted>>

\* Evaluate(candidate, nowMs): the three checks, which load the replay guard.
Check(t, c, nowMs) ==
  /\ initialised
  /\ pc[t] = "idle"
  /\ candidate' = [candidate EXCEPT ![t] = c]
  /\ reason' = [reason EXCEPT ![t] = Verdict(c, nowMs)]
  /\ pc' = [pc EXCEPT ![t] = "guard"]
  /\ UNCHANGED <<setupVars, guardVars, lastRejectReason, countVars, sent,
                 seq, result, accepted>>

\* Mutant: the guard moves whatever the number.
CompareGuardAlways(t) ==
  /\ pc[t] = "guard"
  /\ pc' = [pc EXCEPT ![t] = "store"]
  /\ UNCHANGED <<setupVars, guardVars, lastRejectReason, countVars, sent,
                 candidate, reason, seq, result, accepted>>

\* It loads the guard again and compares ...
CompareGuard(t) ==
  /\ pc[t] = "guard"
  /\ pc' = [pc EXCEPT ![t] =
       IF ~hasPriorSample \/ candidate[t].sequenceNum > lastSequence
       THEN "store" ELSE "reason"]
  /\ UNCHANGED <<setupVars, guardVars, lastRejectReason, countVars, sent,
                 candidate, reason, seq, result, accepted>>

\* ... and moves it forward, for a rejected candidate as for an accepted one.
StoreGuard(t) ==
  /\ pc[t] = "store"
  /\ lastSequence' = candidate[t].sequenceNum
  /\ hasPriorSample' = TRUE
  /\ pc' = [pc EXCEPT ![t] = "reason"]
  /\ UNCHANGED <<setupVars, lastRejectReason, countVars, sent, candidate,
                 reason, seq, result, accepted>>

\* Mutant: a recorded reason stays until a candidate is accepted.
StoreReasonOnce(t) ==
  /\ pc[t] = "reason"
  /\ lastRejectReason' = IF lastRejectReason = "kNone" \/ reason[t] = "kNone"
                         THEN reason[t] ELSE lastRejectReason
  /\ pc' = [pc EXCEPT ![t] = IF reason[t] = "kNone" THEN "accept" ELSE "reject"]
  /\ UNCHANGED <<setupVars, guardVars, countVars, sent, candidate, reason,
                 seq, result, accepted>>

\* It stores lastRejectReason_.
StoreReason(t) ==
  /\ pc[t] = "reason"
  /\ lastRejectReason' = reason[t]
  /\ pc' = [pc EXCEPT ![t] = IF reason[t] = "kNone" THEN "accept" ELSE "reject"]
  /\ UNCHANGED <<setupVars, guardVars, countVars, sent, candidate, reason,
                 seq, result, accepted>>

\* The call returns code r.
Return(t, r) ==
  /\ pc' = [pc EXCEPT ![t] = "idle"]
  /\ result' = [result EXCEPT ![t] = r]
  /\ candidate' = [candidate EXCEPT ![t] = None]
  /\ reason' = [reason EXCEPT ![t] = "kInvalidInput"]

\* Accepted: counted, and Ok.
Accept(t) ==
  /\ pc[t] = "accept"
  /\ acceptCount' = NextCount(acceptCount)
  /\ accepted' = accepted \cup {candidate[t].sequenceNum}
  /\ Return(t, "kOk")
  /\ UNCHANGED <<setupVars, guardVars, lastRejectReason, rejectCount,
                 escalationSequence, sent, seq>>

\* Mutant: a repeated candidate is dropped in silence.
RejectReplaySilently(t) ==
  /\ pc[t] = "reject"
  /\ rejectCount' = NextCount(rejectCount)
  /\ IF reason[t] = "kSequenceAnomaly"
     THEN Return(t, "kInvalidArgument")
     ELSE /\ pc' = [pc EXCEPT ![t] = "number"]
          /\ UNCHANGED <<candidate, reason, result>>
  /\ UNCHANGED <<setupVars, guardVars, lastRejectReason, acceptCount,
                 escalationSequence, sent, seq, accepted>>

\* Rejected: counted.
Reject(t) ==
  /\ pc[t] = "reject"
  /\ rejectCount' = NextCount(rejectCount)
  /\ pc' = [pc EXCEPT ![t] = "number"]
  /\ UNCHANGED <<setupVars, guardVars, lastRejectReason, acceptCount,
                 escalationSequence, sent, candidate, reason, seq, result, accepted>>

\* EscalateToSafeState(): the command takes its number, the one before the
\* increment ...
NumberCommand(t) ==
  /\ pc[t] = "number"
  /\ seq' = [seq EXCEPT ![t] = escalationSequence]
  /\ escalationSequence' = NextCount(escalationSequence)
  /\ pc' = [pc EXCEPT ![t] = "send"]
  /\ UNCHANGED <<setupVars, guardVars, lastRejectReason, acceptCount,
                 rejectCount, sent, candidate, reason, result, accepted>>

\* ... and its sessionId from lastRejectReason_, and goes to IpcBridge::Send(),
\* whose answer is ignored.
SendCommand(t) ==
  /\ pc[t] = "send"
  /\ sent' = [sequenceNum |-> seq[t], sessionId |-> lastRejectReason]
  /\ seq' = [seq EXCEPT ![t] = 0]
  /\ Return(t, "kInvalidArgument")
  /\ UNCHANGED <<setupVars, guardVars, lastRejectReason, countVars, accepted>>

Evaluate(t) ==
  \/ EvaluateTooEarly(t)
  \/ \E c \in Candidates, nowMs \in Clock : Check(t, c, nowMs)
  \/ CompareGuard(t)
  \/ StoreGuard(t)
  \/ StoreReason(t)
  \/ Accept(t)
  \/ Reject(t)
  \/ NumberCommand(t)
  \/ SendCommand(t)

Next ==
  \/ \E cfg \in Configs : Initialise(cfg)
  \/ \E t \in Callers : Evaluate(t)

Spec == Init /\ [][Next]_vars

-----------------------------------------------------------------------------
Count == 0..(CounterModulus - 1)

TypeOK ==
  /\ initialised \in BOOLEAN
  /\ config \in Config
  /\ lastSequence \in Nat
  /\ hasPriorSample \in BOOLEAN
  /\ lastRejectReason \in RejectReason
  /\ acceptCount \in Count
  /\ rejectCount \in Count
  /\ escalationSequence \in Count
  /\ sent \in {None} \cup [sequenceNum : Count, sessionId : RejectReason]
  /\ pc \in [Callers -> {"idle", "guard", "store", "reason", "accept", "reject",
                         "number", "send"}]
  /\ candidate \in [Callers -> Candidate \cup {None}]
  /\ reason \in [Callers -> RejectReason]
  /\ seq \in [Callers -> Count]
  /\ result \in [Callers -> {"none", "kOk", "kInvalidArgument", "kNotInitialized"}]
  /\ accepted \in SUBSET Nat

\* Which caller, if any, accepts in this step.
Accepts(t) == pc[t] = "accept" /\ pc'[t] = "idle"

\* No sequence number is accepted twice or out of order, re-Init() or not.
AcceptedInOrder ==
  [][\A t \in Callers :
       Accepts(t) => \A n \in accepted : candidate[t].sequenceNum > n]_vars

\* The replay guard never goes back: the "non-regression discipline".
GuardNeverRegresses ==
  [][lastSequence' >= lastSequence /\ (hasPriorSample => hasPriorSample')]_vars

\* What the checks promise together, whichever branch was taken: every candidate
\* accepted is inside the thresholds of the configuration in force.
WithinThresholds(c) ==
  /\ {c.primaryConfidence, c.secondaryConfidence} \subseteq config.minConfidence..One
  /\ c.primaryConfidence <= c.secondaryConfidence + config.maxConfidenceDisagreement
  /\ c.secondaryConfidence <= c.primaryConfidence + config.maxConfidenceDisagreement
  /\ c.calibrationDriftMetric \in 0..config.maxCalibrationDrift

AcceptedPlausible ==
  \A t \in Callers : pc[t] = "accept" => WithinThresholds(candidate[t])

\* Every rejection counted has taken, or is about to take, exactly one command
\* number, across the wrap of both counters.
RejectsEscalate ==
  rejectCount =
    (escalationSequence + Cardinality({t \in Callers : pc[t] = "number"}))
      % CounterModulus

\* The command names the rejection that sent it: its sessionId is the reason of
\* the candidate under evaluation, and commands leave in the order of their
\* numbers.
CommandExplained ==
  [][\A t \in Callers :
       pc[t] = "send" /\ pc'[t] = "idle" =>
         /\ sent'.sessionId = reason[t] /\ reason[t] # "kNone"
         /\ sent # None => sent'.sequenceNum = NextCount(sent.sequenceNum)]_vars
=============================================================================
