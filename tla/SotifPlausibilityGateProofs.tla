-------------------- MODULE SotifPlausibilityGateProofs --------------------
(***************************************************************************)
(* SotifPlausibilityGate for any candidates, clock and configurations.     *)
(* Whatever threads call Evaluate(), only plausible candidates are         *)
(* accepted.  With one thread at a time the replay guard never goes back,  *)
(* and no sequence number is accepted twice or out of order; two threads   *)
(* would break both, hence OneCaller.  That rejections and commands tally  *)
(* needs only that the threads are finitely many; that a command names     *)
(* its own rejection needs OneCaller again.                                *)
(***************************************************************************)
EXTENDS SotifPlausibilityGate, FiniteSetTheorems, TLAPS

OneCaller == \A s, t \in Callers : s = t

Busy(t) == pc[t] # "idle"

\* The guard covers what was accepted.
GuardCoversAccepted ==
  \A n \in accepted : hasPriorSample /\ n \in Nat /\ n <= lastSequence

\* A caller about to move the guard moves it forward.
StoreIsForward ==
  \A t \in Callers :
    pc[t] = "store" =>
      ~hasPriorSample \/ candidate[t].sequenceNum > lastSequence

\* What passed the checks is newer than everything accepted.
PassedIsNew ==
  \A t \in Callers :
    Busy(t) /\ reason[t] = "kNone" =>
      \A n \in accepted : candidate[t].sequenceNum > n

\* Past the guard, the guard covers the candidate.
GuardCoversCandidate ==
  \A t \in Callers :
    pc[t] \in {"reason", "accept"} =>
      hasPriorSample /\ candidate[t].sequenceNum <= lastSequence

\* Only what passed reaches the accepting branch.
AcceptMeansPassed == \A t \in Callers : pc[t] = "accept" => reason[t] = "kNone"

\* Before the first sample the guard is where the constructor left it.
FirstGuardIsZero == ~hasPriorSample => lastSequence = 0

\* A caller inside Evaluate() has a candidate.
BusyHasCandidate == \A t \in Callers : Busy(t) => candidate[t] \in Candidate

IInv ==
  /\ TypeOK
  /\ BusyHasCandidate
  /\ GuardCoversAccepted
  /\ StoreIsForward
  /\ PassedIsNew
  /\ GuardCoversCandidate
  /\ AcceptMeansPassed
  /\ FirstGuardIsZero

-----------------------------------------------------------------------------
\* Each check answers with a reason.
LEMMA VerdictType ==
  ASSUME NEW c, NEW nowMs
  PROVE  Verdict(c, nowMs) \in RejectReason
BY DEF Verdict, CheckFreshnessAndSequence, CheckCrossEstimateConfidence,
   CheckCalibrationDrift, RejectReason

\* A candidate that passes all checks is newer than the guard.
LEMMA PassedBeatsGuard ==
  ASSUME NEW c \in Candidate, NEW nowMs, Verdict(c, nowMs) = "kNone",
         lastSequence \in Nat
  PROVE  ~hasPriorSample \/ c.sequenceNum > lastSequence
BY DEF Verdict, CheckFreshnessAndSequence, Candidate

LEMMA NextCountType ==
  ASSUME NEW n \in Count
  PROVE  NextCount(n) \in Count
BY ModulusAssumption DEF Count, NextCount

\* Init() establishes the types.
LEMMA InitType ==
  ASSUME Init
  PROVE  TypeOK
<1>1. 0 \in Count
  BY ModulusAssumption DEF Count
<1>2. QED
  BY <1>1, ConfigsAssumption DEF Init, TypeOK, RejectReason

\* Type correctness of every step.
LEMMA TypeStep ==
  ASSUME TypeOK, BusyHasCandidate, [Next]_vars
  PROVE  TypeOK'
<1> USE DEF TypeOK, setupVars, guardVars, countVars, Return
<1>0. {"kInvalidInput", "kNone"} \subseteq RejectReason
  BY DEF RejectReason
<1>1. ASSUME NEW cfg \in Configs, Initialise(cfg)
      PROVE  TypeOK'
  BY <1>1, ConfigsAssumption DEF Initialise
<1>2. ASSUME NEW t \in Callers, EvaluateTooEarly(t)
      PROVE  TypeOK'
  BY <1>2 DEF EvaluateTooEarly
<1>3. ASSUME NEW t \in Callers, NEW c \in Candidates, NEW nowMs \in Clock,
             Check(t, c, nowMs)
      PROVE  TypeOK'
  BY <1>3, CandidatesAssumption, VerdictType DEF Check
<1>4. ASSUME NEW t \in Callers, CompareGuard(t)
      PROVE  TypeOK'
  BY <1>4 DEF CompareGuard
<1>5. ASSUME NEW t \in Callers, StoreGuard(t)
      PROVE  TypeOK'
  <2>1. candidate[t].sequenceNum \in Nat
    BY <1>5 DEF StoreGuard, BusyHasCandidate, Busy, Candidate
  <2>2. QED
    BY <1>5, <2>1 DEF StoreGuard
<1>6. ASSUME NEW t \in Callers, StoreReason(t)
      PROVE  TypeOK'
  BY <1>6 DEF StoreReason
<1>7. ASSUME NEW t \in Callers, Accept(t)
      PROVE  TypeOK'
  <2>1. candidate[t].sequenceNum \in Nat
    BY <1>7 DEF Accept, BusyHasCandidate, Busy, Candidate
  <2>2. QED
    BY <1>0, <1>7, <2>1, NextCountType DEF Accept
<1>8. ASSUME NEW t \in Callers, Reject(t)
      PROVE  TypeOK'
  BY <1>8, NextCountType DEF Reject
<1>9. ASSUME NEW t \in Callers, NumberCommand(t)
      PROVE  TypeOK'
  BY <1>9, NextCountType DEF NumberCommand
<1>10. ASSUME NEW t \in Callers, SendCommand(t)
       PROVE  TypeOK'
  <2>1. 0 \in Count
    BY ModulusAssumption DEF Count
  <2>2. QED
    BY <1>0, <1>10, <2>1 DEF SendCommand
<1>11. CASE UNCHANGED vars
  BY <1>11 DEF vars
<1>12. QED
  BY <1>1, <1>2, <1>3, <1>4, <1>5, <1>6, <1>7, <1>8, <1>9, <1>10, <1>11
     DEF Next, Evaluate

-----------------------------------------------------------------------------
\* A caller gets its candidate when it enters Evaluate() and loses it on return.
LEMMA BusyStep ==
  ASSUME TypeOK, BusyHasCandidate, [Next]_vars
  PROVE  BusyHasCandidate'
<1> USE DEF TypeOK, BusyHasCandidate, Busy
<1>1. ASSUME NEW t \in Callers, NEW c \in Candidates, NEW nowMs \in Clock,
             Check(t, c, nowMs)
      PROVE  BusyHasCandidate'
  BY <1>1, CandidatesAssumption DEF Check
<1>2. ASSUME NEW t \in Callers, Accept(t) \/ SendCommand(t)
      PROVE  BusyHasCandidate'
  BY <1>2 DEF Accept, SendCommand, Return
<1>3. ASSUME NEW t \in Callers,
             CompareGuard(t) \/ StoreGuard(t) \/ StoreReason(t) \/ Reject(t)
               \/ NumberCommand(t)
      PROVE  BusyHasCandidate'
  BY <1>3 DEF CompareGuard, StoreGuard, StoreReason, Reject, NumberCommand
<1>4. CASE UNCHANGED <<pc, candidate>>
  BY <1>4
<1>5. QED
  BY <1>1, <1>2, <1>3, <1>4
     DEF Next, Evaluate, Initialise, EvaluateTooEarly, vars

\* Type correctness holds in every reachable state, whoever calls Evaluate().
THEOREM TypeCorrect == Spec => []TypeOK
<1>1. Init => TypeOK /\ BusyHasCandidate
  BY InitType DEF Init, BusyHasCandidate, Busy
<1>2. TypeOK /\ BusyHasCandidate /\ [Next]_vars => (TypeOK /\ BusyHasCandidate)'
  BY TypeStep, BusyStep
<1>3. QED
  BY <1>1, <1>2, PTL DEF Spec

-----------------------------------------------------------------------------
\* Init() lets only such a configuration through.
ConfigInForce == initialised => ValidConfig(config)

\* Nobody is inside Evaluate() before Init().
BusyIsInitialised == \A t \in Callers : Busy(t) => initialised

\* A verdict of kNone stays true of the candidate as long as the call lasts.
PassedPlausible ==
  \A t \in Callers :
    Busy(t) /\ reason[t] = "kNone" => WithinThresholds(candidate[t])

PlausibleInv ==
  /\ TypeOK
  /\ BusyHasCandidate
  /\ ConfigInForce
  /\ BusyIsInitialised
  /\ PassedPlausible
  /\ AcceptMeansPassed

\* What the three checks promise together, NaN and the branches' order included.
LEMMA VerdictSound ==
  ASSUME NEW c \in Candidate, NEW nowMs, config \in Config, ValidConfig(config),
         Verdict(c, nowMs) = "kNone"
  PROVE  WithinThresholds(c)
<1>1. /\ CheckCrossEstimateConfidence(c) = "kNone"
      /\ CheckCalibrationDrift(c) = "kNone"
  BY DEF Verdict
<1>2. /\ InUnit(c.primaryConfidence)
      /\ InUnit(c.secondaryConfidence)
      /\ ~(c.primaryConfidence < config.minConfidence)
      /\ ~(c.secondaryConfidence < config.minConfidence)
      /\ ~(Distance(c.primaryConfidence, c.secondaryConfidence)
             > config.maxConfidenceDisagreement)
  BY <1>1 DEF CheckCrossEstimateConfidence
<1>3. /\ c.primaryConfidence \in Int
      /\ c.secondaryConfidence \in Int
  BY <1>2 DEF InUnit, IsFinite, Candidate, Reading
<1>4. /\ config.minConfidence \in Int
      /\ config.maxConfidenceDisagreement \in Int
      /\ config.maxCalibrationDrift \in Int
  BY DEF ValidConfig, IsFinite, Config, Reading
<1>5. {c.primaryConfidence, c.secondaryConfidence} \subseteq config.minConfidence..One
  BY <1>2, <1>3, <1>4, ScaleAssumption DEF InUnit
<1>6. /\ c.primaryConfidence <= c.secondaryConfidence + config.maxConfidenceDisagreement
      /\ c.secondaryConfidence <= c.primaryConfidence + config.maxConfidenceDisagreement
  BY <1>2, <1>3, <1>4 DEF Distance, ValidConfig
<1>7. c.calibrationDriftMetric \in 0..config.maxCalibrationDrift
  <2>1. IsFinite(c.calibrationDriftMetric)
    BY <1>1 DEF CheckCalibrationDrift
  <2>2. c.calibrationDriftMetric \in Int
    BY <2>1 DEF IsFinite, Candidate, Reading
  <2>3. QED
    BY <1>1, <1>4, <2>2 DEF CheckCalibrationDrift
<1>8. QED
  BY <1>5, <1>6, <1>7 DEF WithinThresholds

\* The steps of one call leave its verdict, its candidate and the configuration
\* alone until it returns.
LEMMA PlausibleStep ==
  ASSUME PlausibleInv, [Next]_vars
  PROVE  PlausibleInv'
<1> USE DEF PlausibleInv
<1>1. TypeOK' /\ BusyHasCandidate'
  BY TypeStep, BusyStep
<1>2. ASSUME NEW cfg \in Configs, Initialise(cfg)
      PROVE  PlausibleInv'
  BY <1>1, <1>2 DEF Initialise, ConfigInForce, BusyIsInitialised, PassedPlausible,
                    AcceptMeansPassed, Busy
<1>3. ASSUME NEW t \in Callers, NEW c \in Candidates, NEW nowMs \in Clock,
             Check(t, c, nowMs)
      PROVE  PlausibleInv'
  <2>1. Verdict(c, nowMs) = "kNone" => WithinThresholds(c)
    BY <1>3, CandidatesAssumption, VerdictSound DEF Check, ConfigInForce, TypeOK
  <2>2. /\ initialised /\ initialised' /\ config' = config
        /\ pc' = [pc EXCEPT ![t] = "guard"]
        /\ reason' = [reason EXCEPT ![t] = Verdict(c, nowMs)]
        /\ candidate' = [candidate EXCEPT ![t] = c]
    BY <1>3 DEF Check, setupVars
  <2>3. PassedPlausible'
    BY <2>1, <2>2 DEF PassedPlausible, WithinThresholds, Busy, TypeOK
  <2>4. AcceptMeansPassed'
    BY <2>2 DEF AcceptMeansPassed, TypeOK
  <2>5. ConfigInForce' /\ BusyIsInitialised'
    BY <2>2 DEF ConfigInForce, ValidConfig, BusyIsInitialised
  <2>6. QED
    BY <1>1, <2>3, <2>4, <2>5
<1>4. ASSUME NEW t \in Callers,
             CompareGuard(t) \/ StoreGuard(t) \/ StoreReason(t) \/ Accept(t)
               \/ Reject(t) \/ NumberCommand(t) \/ SendCommand(t)
      PROVE  PlausibleInv'
  <2>1. UNCHANGED setupVars
    BY <1>4 DEF CompareGuard, StoreGuard, StoreReason, Accept, Reject,
                NumberCommand, SendCommand
  <2>2. pc[t] # "idle"
    BY <1>4 DEF CompareGuard, StoreGuard, StoreReason, Accept, Reject,
                NumberCommand, SendCommand
  <2>3. \A u \in Callers \ {t} :
           pc'[u] = pc[u] /\ reason'[u] = reason[u] /\ candidate'[u] = candidate[u]
    BY <1>4 DEF CompareGuard, StoreGuard, StoreReason, Accept, Reject,
                NumberCommand, SendCommand, Return, TypeOK
  <2>4. \/ pc'[t] = "idle"
        \/ /\ reason'[t] = reason[t] /\ candidate'[t] = candidate[t]
           /\ pc'[t] = "accept" => reason[t] = "kNone"
    BY <1>4 DEF CompareGuard, StoreGuard, StoreReason, Accept, Reject,
                NumberCommand, SendCommand, Return, TypeOK
  <2>5. ConfigInForce' /\ BusyIsInitialised'
    BY <2>1, <2>2, <2>3 DEF setupVars, ConfigInForce, ValidConfig,
                            BusyIsInitialised, Busy
  <2>6. PassedPlausible'
    BY <2>1, <2>2, <2>3, <2>4
       DEF setupVars, PassedPlausible, WithinThresholds, Busy
  <2>7. AcceptMeansPassed'
    BY <2>3, <2>4 DEF AcceptMeansPassed
  <2>8. QED
    BY <1>1, <2>5, <2>6, <2>7
<1>5. ASSUME NEW t \in Callers, EvaluateTooEarly(t) \/ UNCHANGED vars
      PROVE  PlausibleInv'
  <2>1. UNCHANGED <<setupVars, pc, reason, candidate>>
    BY <1>5 DEF EvaluateTooEarly, vars
  <2>2. QED
    BY <1>1, <2>1 DEF setupVars, ConfigInForce, ValidConfig, BusyIsInitialised,
                      PassedPlausible, WithinThresholds, AcceptMeansPassed, Busy
<1>6. CASE UNCHANGED vars
  BY <1>1, <1>6 DEF vars, setupVars, ConfigInForce, ValidConfig, BusyIsInitialised,
                    PassedPlausible, WithinThresholds, AcceptMeansPassed, Busy
<1>7. QED
  BY <1>2, <1>3, <1>4, <1>5, <1>6 DEF Next, Evaluate

\* Whoever calls Evaluate(), and whenever Init() is called again between calls:
\* every candidate accepted is within the thresholds in force.
THEOREM Plausible == Spec => []AcceptedPlausible
<1>1. Init => PlausibleInv
  <2> SUFFICES ASSUME Init PROVE PlausibleInv
    OBVIOUS
  <2>1. TypeOK
    BY InitType
  <2>2. ~initialised /\ \A t \in Callers : pc[t] = "idle"
    BY DEF Init
  <2>3. QED
    BY <2>1, <2>2 DEF PlausibleInv, BusyHasCandidate, ConfigInForce,
       BusyIsInitialised, PassedPlausible, AcceptMeansPassed, Busy
<1>2. PlausibleInv => AcceptedPlausible
  BY DEF PlausibleInv, PassedPlausible, AcceptMeansPassed, AcceptedPlausible, Busy
<1>3. QED
  BY <1>1, <1>2, PlausibleStep, PTL DEF Spec

-----------------------------------------------------------------------------
\* The conjuncts of IInv beside the types, for a step that touches neither the
\* guard nor the accepted numbers.
Guarded ==
  /\ BusyHasCandidate
  /\ GuardCoversAccepted
  /\ StoreIsForward
  /\ PassedIsNew
  /\ GuardCoversCandidate
  /\ AcceptMeansPassed
  /\ FirstGuardIsZero

\* The checks: what passes beats the guard, and so everything accepted.
LEMMA CheckStep ==
  ASSUME OneCaller, IInv, NEW t \in Callers, NEW c \in Candidates,
         NEW nowMs \in Clock, Check(t, c, nowMs)
  PROVE  Guarded'
<1> USE DEF IInv, guardVars
<1>1. \A s \in Callers : s = t
  BY DEF OneCaller
<1>2. /\ pc'[t] = "guard" /\ candidate'[t] = c /\ reason'[t] = Verdict(c, nowMs)
      /\ UNCHANGED <<lastSequence, hasPriorSample, accepted>>
  BY DEF Check, TypeOK
<1>3. c \in Candidate
  BY CandidatesAssumption
<1>4. Verdict(c, nowMs) = "kNone" =>
        ~hasPriorSample \/ c.sequenceNum > lastSequence
  BY <1>3, PassedBeatsGuard DEF TypeOK
<1>5. PassedIsNew'
  <2>1. c.sequenceNum \in Nat /\ lastSequence \in Nat
    BY <1>3 DEF Candidate, TypeOK
  <2>2. QED
    BY <1>1, <1>2, <1>4, <2>1 DEF PassedIsNew, GuardCoversAccepted
<1>6. QED
  BY <1>1, <1>2, <1>3, <1>5
     DEF Guarded, BusyHasCandidate, GuardCoversAccepted, StoreIsForward,
         GuardCoversCandidate, AcceptMeansPassed,
         FirstGuardIsZero, Busy

\* The comparison: a caller that skips the store is covered already.
LEMMA CompareGuardStep ==
  ASSUME OneCaller, IInv, NEW t \in Callers, CompareGuard(t)
  PROVE  Guarded'
<1> USE DEF IInv, guardVars
<1>1. \A s \in Callers : s = t
  BY DEF OneCaller
<1>2. /\ pc[t] = "guard"
      /\ pc'[t] = IF ~hasPriorSample \/ candidate[t].sequenceNum > lastSequence
                  THEN "store" ELSE "reason"
      /\ UNCHANGED <<lastSequence, hasPriorSample, accepted, candidate, reason>>
  BY DEF CompareGuard, TypeOK
<1>3. candidate[t].sequenceNum \in Nat /\ lastSequence \in Nat
  BY <1>2 DEF BusyHasCandidate, Busy, Candidate, TypeOK
<1>4. QED
  BY <1>1, <1>2, <1>3
     DEF Guarded, BusyHasCandidate, GuardCoversAccepted, StoreIsForward,
         PassedIsNew, GuardCoversCandidate, AcceptMeansPassed,
         FirstGuardIsZero, Busy

\* The store: the guard moves up to the candidate.
LEMMA StoreGuardStep ==
  ASSUME OneCaller, IInv, NEW t \in Callers, StoreGuard(t)
  PROVE  Guarded'
<1> USE DEF IInv, guardVars
<1>1. \A s \in Callers : s = t
  BY DEF OneCaller
<1>2. /\ pc[t] = "store" /\ pc'[t] = "reason"
      /\ lastSequence' = candidate[t].sequenceNum /\ hasPriorSample' = TRUE
      /\ UNCHANGED <<accepted, candidate, reason>>
  BY DEF StoreGuard, TypeOK
<1>3. candidate[t].sequenceNum \in Nat /\ lastSequence \in Nat
  BY <1>2 DEF BusyHasCandidate, Busy, Candidate, TypeOK
<1>4. GuardCoversAccepted'
  BY <1>2, <1>3 DEF GuardCoversAccepted, StoreIsForward
<1>5. QED
  BY <1>1, <1>2, <1>3, <1>4
     DEF Guarded, BusyHasCandidate, StoreIsForward, PassedIsNew,
         GuardCoversCandidate, AcceptMeansPassed,
         FirstGuardIsZero, Busy

LEMMA StoreReasonStep ==
  ASSUME OneCaller, IInv, NEW t \in Callers, StoreReason(t)
  PROVE  Guarded'
<1> USE DEF IInv, guardVars
<1>1. \A s \in Callers : s = t
  BY DEF OneCaller
<1>2. /\ pc[t] = "reason"
      /\ pc'[t] = IF reason[t] = "kNone" THEN "accept" ELSE "reject"
      /\ UNCHANGED <<lastSequence, hasPriorSample, accepted, candidate, reason>>
  BY DEF StoreReason, TypeOK
<1>3. QED
  BY <1>1, <1>2
     DEF Guarded, BusyHasCandidate, GuardCoversAccepted, StoreIsForward,
         PassedIsNew, GuardCoversCandidate, AcceptMeansPassed,
         FirstGuardIsZero, Busy

\* Acceptance adds a number that the guard covers.
LEMMA AcceptStep ==
  ASSUME OneCaller, IInv, NEW t \in Callers, Accept(t)
  PROVE  Guarded'
<1> USE DEF IInv, guardVars
<1>1. \A s \in Callers : s = t
  BY DEF OneCaller
<1>2. /\ pc[t] = "accept" /\ pc'[t] = "idle"
      /\ accepted' = accepted \cup {candidate[t].sequenceNum}
      /\ UNCHANGED <<lastSequence, hasPriorSample>>
  BY DEF Accept, Return, TypeOK
<1>3. candidate[t].sequenceNum \in Nat
  BY <1>2 DEF BusyHasCandidate, Busy, Candidate
<1>4. GuardCoversAccepted'
  BY <1>2, <1>3 DEF GuardCoversAccepted, GuardCoversCandidate
<1>5. QED
  BY <1>1, <1>2, <1>4
     DEF Guarded, BusyHasCandidate, StoreIsForward, PassedIsNew,
         GuardCoversCandidate, AcceptMeansPassed,
         FirstGuardIsZero, Busy

\* The steps of a rejection leave guard and accepted numbers alone.
LEMMA RejectionStep ==
  ASSUME OneCaller, IInv, NEW t \in Callers,
         Reject(t) \/ NumberCommand(t) \/ SendCommand(t)
  PROVE  Guarded'
<1> USE DEF IInv, guardVars
<1>1. \A s \in Callers : s = t
  BY DEF OneCaller
<1>2. /\ UNCHANGED <<lastSequence, hasPriorSample, accepted>>
      /\ \/ pc'[t] = "idle"
         \/ /\ pc'[t] \in {"number", "send"} /\ Busy(t)
            /\ UNCHANGED <<candidate, reason>>
  BY DEF Reject, NumberCommand, SendCommand, Return, TypeOK, Busy
<1>3. QED
  BY <1>1, <1>2
     DEF Guarded, BusyHasCandidate, GuardCoversAccepted, StoreIsForward,
         PassedIsNew, GuardCoversCandidate, AcceptMeansPassed,
         FirstGuardIsZero, Busy

LEMMA OtherStep ==
  ASSUME IInv,
         \/ \E cfg \in Configs : Initialise(cfg)
         \/ \E t \in Callers : EvaluateTooEarly(t)
         \/ UNCHANGED vars
  PROVE  Guarded'
<1>1. UNCHANGED <<lastSequence, hasPriorSample, accepted, pc, candidate, reason>>
  BY DEF Initialise, EvaluateTooEarly, vars, guardVars
<1>2. QED
  BY <1>1 DEF IInv, Guarded, BusyHasCandidate, GuardCoversAccepted,
     StoreIsForward, PassedIsNew, GuardCoversCandidate, AcceptMeansPassed,
         FirstGuardIsZero, Busy

\* IInv is an inductive invariant of the gate with one caller.
LEMMA Invariance ==
  ASSUME OneCaller
  PROVE  Spec => []IInv
<1>1. Init => IInv
  <2> SUFFICES ASSUME Init PROVE IInv
    OBVIOUS
  <2>1. TypeOK
    BY InitType
  <2>2. \A t \in Callers : pc[t] = "idle"
    BY DEF Init
  <2>3. accepted = {} /\ lastSequence = 0
    BY DEF Init
  <2>4. QED
    BY <2>1, <2>2, <2>3 DEF IInv, BusyHasCandidate, GuardCoversAccepted,
       StoreIsForward, PassedIsNew, GuardCoversCandidate, AcceptMeansPassed,
         FirstGuardIsZero, Busy
<1>2. IInv /\ [Next]_vars => IInv'
  <2> SUFFICES ASSUME IInv, [Next]_vars
               PROVE  IInv'
    OBVIOUS
  <2>1. TypeOK'
    BY TypeStep DEF IInv
  <2>2. Guarded'
    BY CheckStep, CompareGuardStep, StoreGuardStep, StoreReasonStep, AcceptStep,
       RejectionStep, OtherStep DEF Next, Evaluate
  <2>3. QED
    BY <2>1, <2>2 DEF IInv, Guarded
<1>3. QED
  BY <1>1, <1>2, PTL DEF Spec

-----------------------------------------------------------------------------
\* No sequence number is accepted twice or out of order, however often Init()
\* is called and whatever was rejected in between.
THEOREM InOrder ==
  ASSUME OneCaller
  PROVE  Spec => AcceptedInOrder
<1>1. IInv /\ [Next]_vars =>
        [\A t \in Callers :
           Accepts(t) => \A n \in accepted : candidate[t].sequenceNum > n]_vars
  <2> SUFFICES ASSUME IInv, NEW t \in Callers, pc[t] = "accept"
               PROVE  \A n \in accepted : candidate[t].sequenceNum > n
    BY DEF Accepts
  <2>1. Busy(t) /\ reason[t] = "kNone"
    BY DEF Busy, IInv, AcceptMeansPassed
  <2>2. QED
    BY <2>1 DEF IInv, PassedIsNew
<1>2. QED
  BY <1>1, Invariance, PTL DEF Spec, AcceptedInOrder

\* The replay guard never goes back.
THEOREM NonRegression ==
  ASSUME OneCaller
  PROVE  Spec => GuardNeverRegresses
<1>1. IInv /\ [Next]_vars =>
        [lastSequence' >= lastSequence /\ (hasPriorSample => hasPriorSample')]_vars
  <2> SUFFICES ASSUME IInv, [Next]_vars
               PROVE  /\ lastSequence' >= lastSequence
                      /\ hasPriorSample => hasPriorSample'
    OBVIOUS
  <2>1. lastSequence \in Nat /\ lastSequence' \in Nat
    BY TypeStep DEF IInv, TypeOK
  <2>2. ASSUME NEW t \in Callers, StoreGuard(t)
        PROVE  lastSequence' >= lastSequence /\ hasPriorSample'
    <3>1. pc[t] = "store" /\ lastSequence' = candidate[t].sequenceNum /\ hasPriorSample'
      BY <2>2 DEF StoreGuard
    <3>2. ~hasPriorSample \/ lastSequence' > lastSequence
      BY <3>1 DEF IInv, StoreIsForward
    <3>3. ~hasPriorSample => lastSequence = 0
      BY DEF IInv, FirstGuardIsZero
    <3>4. QED
      BY <2>1, <3>1, <3>2, <3>3
  <2>3. \/ \E t \in Callers : StoreGuard(t)
        \/ UNCHANGED <<lastSequence, hasPriorSample>>
    BY DEF Next, Evaluate, Initialise, EvaluateTooEarly, Check, CompareGuard,
       StoreReason, Accept, Reject, NumberCommand, SendCommand, vars, guardVars
  <2>4. QED
    BY <2>1, <2>2, <2>3
<1>2. QED
  BY <1>1, Invariance, PTL DEF Spec, GuardNeverRegresses

-----------------------------------------------------------------------------
\* Quotient and remainder of an integer by the counters' modulus are unique.
LEMMA RemainderUnique ==
  ASSUME NEW q \in Int, NEW r \in Count
  PROVE  (CounterModulus * q + r) % CounterModulus = r
<1> DEFINE M == CounterModulus
           n == M * q + r
           p == n \div M
           s == n % M
<1> USE ModulusAssumption DEF Count
<1>1. p \in Int /\ s \in 0..(M - 1) /\ M * (q - p) = s - r
  OBVIOUS
<1> HIDE DEF p, s
<1>2. CASE q - p >= 1
  <2>1. M * (q - p) >= M
    BY <1>1, <1>2
  <2>2. QED
    BY <1>1, <2>1
<1>3. CASE q - p < 0
  <2>1. M * (q - p) <= -M
    BY <1>1, <1>3
  <2>2. QED
    BY <1>1, <2>1
<1>4. CASE q - p = 0
  BY <1>1, <1>4 DEF s
<1>5. QED
  BY <1>1, <1>2, <1>3, <1>4

\* A counter that counts n modulo its range counts n + 1 when it is advanced,
\* and a whole turn makes no difference.
LEMMA RemainderSteps ==
  ASSUME NEW n \in Int
  PROVE  /\ (n + 1) % CounterModulus = NextCount(n % CounterModulus)
         /\ (n + CounterModulus) % CounterModulus = n % CounterModulus
<1> DEFINE M == CounterModulus
           q == n \div M
           r == n % M
<1> USE ModulusAssumption DEF Count
<1>1. n = M * q + r /\ r \in 0..(M - 1) /\ q \in Int
  OBVIOUS
<1> HIDE DEF q, r
<1>2. (n + M) % M = r
  <2>1. n + M = M * (q + 1) + r
    BY <1>1
  <2>2. QED
    BY <1>1, <2>1, RemainderUnique
<1>3. (n + 1) % M = NextCount(r)
  <2>1. CASE r + 1 = M
    <3>1. n + 1 = M * (q + 1) + 0
      BY <1>1, <2>1
    <3>2. QED
      BY <1>1, <2>1, <3>1, RemainderUnique DEF NextCount
  <2>2. CASE r + 1 # M
    <3>1. n + 1 = M * q + (r + 1) /\ r + 1 \in Count
      BY <1>1, <2>2
    <3>2. QED
      BY <1>1, <2>2, <3>1, RemainderUnique DEF NextCount
  <2>3. QED
    BY <2>1, <2>2
<1>4. QED
  BY <1>2, <1>3 DEF r

\* The callers that have counted a rejection and not yet numbered its command.
Numbering == {t \in Callers : pc[t] = "number"}

\* Counting a rejection owes one number, taking a number pays it.
LEMMA RejectsStep ==
  ASSUME IsFiniteSet(Callers), TypeOK, RejectsEscalate, [Next]_vars
  PROVE  RejectsEscalate'
<1> DEFINE n == Cardinality(Numbering)
<1>1. IsFiniteSet(Numbering) /\ n \in Nat /\ escalationSequence \in Count
      /\ rejectCount = (escalationSequence + n) % CounterModulus
  BY FS_Subset, FS_CardinalityType DEF Numbering, TypeOK, RejectsEscalate
<1>2. SUFFICES rejectCount' =
                 (escalationSequence' + Cardinality(Numbering')) % CounterModulus
  BY DEF RejectsEscalate, Numbering
<1>3. ASSUME NEW t \in Callers, Reject(t)
      PROVE  rejectCount' =
               (escalationSequence' + Cardinality(Numbering')) % CounterModulus
  <2>1. /\ rejectCount' = NextCount(rejectCount)
        /\ escalationSequence' = escalationSequence
        /\ Numbering' = Numbering \cup {t} /\ t \notin Numbering
    BY <1>3 DEF Reject, Numbering, TypeOK
  <2>2. Cardinality(Numbering') = n + 1
    BY <1>1, <2>1, FS_AddElement
  <2>3. NextCount((escalationSequence + n) % CounterModulus)
          = (escalationSequence + n + 1) % CounterModulus
    BY <1>1, RemainderSteps DEF Count
  <2>4. QED
    BY <1>1, <2>1, <2>2, <2>3 DEF Count
<1>4. ASSUME NEW t \in Callers, NumberCommand(t)
      PROVE  rejectCount' =
               (escalationSequence' + Cardinality(Numbering')) % CounterModulus
  <2>1. /\ rejectCount' = rejectCount
        /\ escalationSequence' = NextCount(escalationSequence)
        /\ Numbering' = Numbering \ {t} /\ t \in Numbering
    BY <1>4 DEF NumberCommand, Numbering, TypeOK
  <2>2. Cardinality(Numbering') = n - 1
    BY <1>1, <2>1, FS_RemoveElement
  <2>3. CASE escalationSequence + 1 = CounterModulus
    <3>1. escalationSequence + n = (n - 1) + CounterModulus
      BY <1>1, <2>3, ModulusAssumption DEF Count
    <3>2. rejectCount = (n - 1) % CounterModulus
      BY <1>1, <3>1, RemainderSteps
    <3>3. escalationSequence' = 0
      BY <2>1, <2>3 DEF NextCount
    <3>4. QED
      BY <1>1, <2>1, <2>2, <3>2, <3>3
  <2>4. CASE escalationSequence + 1 # CounterModulus
    <3>1. escalationSequence' + (n - 1) = escalationSequence + n
      BY <1>1, <2>1, <2>4 DEF NextCount, Count
    <3>2. QED
      BY <1>1, <2>1, <2>2, <3>1
  <2>5. QED
    BY <2>3, <2>4
<1>5. CASE UNCHANGED <<rejectCount, escalationSequence, Numbering>>
  BY <1>1, <1>5
<1>6. ASSUME NEW t \in Callers,
             \/ \E c \in Candidates, nowMs \in Clock : Check(t, c, nowMs)
             \/ CompareGuard(t) \/ StoreGuard(t) \/ StoreReason(t) \/ Accept(t)
             \/ SendCommand(t)
      PROVE  UNCHANGED <<rejectCount, escalationSequence, Numbering>>
  <2>1. UNCHANGED <<rejectCount, escalationSequence>>
    BY <1>6 DEF Check, CompareGuard, StoreGuard, StoreReason, Accept, SendCommand,
                countVars
  <2>2. /\ pc[t] # "number" /\ pc'[t] # "number"
        /\ \A u \in Callers \ {t} : pc'[u] = pc[u]
    BY <1>6 DEF Check, CompareGuard, StoreGuard, StoreReason, Accept, SendCommand,
                Return, TypeOK
  <2>3. QED
    BY <2>1, <2>2 DEF Numbering
<1>7. QED
  BY <1>3, <1>4, <1>5, <1>6
     DEF Next, Evaluate, Initialise, EvaluateTooEarly, vars, countVars, Numbering

\* However many threads call Evaluate(), and across the wrap of both counters:
\* every rejection that is counted takes exactly one command number.
THEOREM EveryRejectEscalates ==
  ASSUME IsFiniteSet(Callers)
  PROVE  Spec => []RejectsEscalate
<1>1. Init => RejectsEscalate
  <2> SUFFICES ASSUME Init PROVE RejectsEscalate
    OBVIOUS
  <2>1. Numbering = {} /\ rejectCount = 0 /\ escalationSequence = 0
    BY DEF Init, Numbering
  <2>2. Cardinality(Numbering) = 0
    BY <2>1, FS_EmptySet
  <2>3. 0 % CounterModulus = 0
    BY ModulusAssumption
  <2>4. QED
    BY <2>1, <2>2, <2>3 DEF RejectsEscalate, Numbering
<1>2. TypeOK /\ RejectsEscalate /\ [Next]_vars => RejectsEscalate'
  BY RejectsStep
<1>3. QED
  BY <1>1, <1>2, TypeCorrect, PTL DEF Spec

-----------------------------------------------------------------------------
\* Nobody else overwrites the reason between its store and the command.
ReasonStands ==
  \A t \in Callers :
    pc[t] \in {"reject", "number", "send"} =>
      lastRejectReason = reason[t] /\ reason[t] # "kNone"

\* The number taken, and the next one to take, continue those of the commands
\* sent.
NumbersFollow ==
  \/ \E t \in Callers :
       /\ pc[t] = "send"
       /\ escalationSequence = NextCount(seq[t])
       /\ sent # None => seq[t] = NextCount(sent.sequenceNum)
  \/ /\ \A t \in Callers : pc[t] # "send"
     /\ sent # None => escalationSequence = NextCount(sent.sequenceNum)

Explained == ReasonStands /\ NumbersFollow

\* With one caller, a reason lasts until its command is sent, and numbers leave
\* in the order in which they are taken.
LEMMA ExplainedStep ==
  ASSUME OneCaller, TypeOK, Explained, [Next]_vars
  PROVE  Explained'
<1> USE DEF Explained
<1>1. ASSUME NEW t \in Callers, StoreReason(t)
      PROVE  Explained'
  <2>1. /\ \A u \in Callers : u = t
        /\ pc[t] = "reason" /\ UNCHANGED <<escalationSequence, sent, reason, seq>>
        /\ pc'[t] = IF reason[t] = "kNone" THEN "accept" ELSE "reject"
        /\ lastRejectReason' = reason[t]
    BY <1>1 DEF OneCaller, StoreReason, countVars, TypeOK
  <2>2. QED
    BY <2>1 DEF ReasonStands, NumbersFollow
<1>2. ASSUME NEW t \in Callers, Reject(t)
      PROVE  Explained'
  <2>1. /\ \A u \in Callers : u = t
        /\ pc[t] = "reject" /\ pc'[t] = "number"
        /\ UNCHANGED <<lastRejectReason, escalationSequence, sent, reason, seq>>
    BY <1>2 DEF OneCaller, Reject, TypeOK
  <2>2. QED
    BY <2>1 DEF ReasonStands, NumbersFollow
<1>3. ASSUME NEW t \in Callers, NumberCommand(t)
      PROVE  Explained'
  <2>1. /\ \A u \in Callers : u = t
        /\ pc[t] = "number" /\ pc'[t] = "send"
        /\ seq'[t] = escalationSequence
        /\ escalationSequence' = NextCount(escalationSequence)
        /\ UNCHANGED <<lastRejectReason, sent, reason>>
    BY <1>3 DEF OneCaller, NumberCommand, TypeOK
  <2>2. QED
    BY <2>1 DEF ReasonStands, NumbersFollow
<1>4. ASSUME NEW t \in Callers, SendCommand(t)
      PROVE  Explained'
  <2>1. /\ \A u \in Callers : u = t
        /\ pc[t] = "send" /\ pc'[t] = "idle"
        /\ sent' = [sequenceNum |-> seq[t], sessionId |-> lastRejectReason]
        /\ UNCHANGED escalationSequence
    BY <1>4 DEF OneCaller, SendCommand, Return, countVars, TypeOK
  <2>2. QED
    BY <2>1 DEF ReasonStands, NumbersFollow
<1>5. ASSUME NEW t \in Callers,
             \/ \E c \in Candidates, nowMs \in Clock : Check(t, c, nowMs)
             \/ CompareGuard(t) \/ StoreGuard(t) \/ Accept(t)
      PROVE  Explained'
  <2>1. /\ \A u \in Callers : u = t
        /\ pc[t] \in {"idle", "guard", "store", "accept"}
        /\ pc'[t] \in {"guard", "store", "reason", "idle"}
        /\ UNCHANGED <<lastRejectReason, escalationSequence, sent, seq>>
    BY <1>5 DEF OneCaller, Check, CompareGuard, StoreGuard, Accept, Return,
                countVars, TypeOK
  <2>2. QED
    BY <2>1 DEF ReasonStands, NumbersFollow
<1>6. CASE UNCHANGED <<lastRejectReason, escalationSequence, sent, pc, reason, seq>>
  BY <1>6 DEF ReasonStands, NumbersFollow
<1>7. QED
  BY <1>1, <1>2, <1>3, <1>4, <1>5, <1>6
     DEF Next, Evaluate, Initialise, EvaluateTooEarly, vars, countVars

\* Every command names the rejection that sent it, and commands leave in the
\* order of their numbers, across the wrap.
THEOREM CommandsExplained ==
  ASSUME OneCaller
  PROVE  Spec => CommandExplained
<1>1. Init => Explained
  BY DEF Init, Explained, ReasonStands, NumbersFollow
<1>2. TypeOK /\ Explained /\ [Next]_vars => Explained'
  BY ExplainedStep
<1>3. TypeOK /\ Explained /\ [Next]_vars =>
        [\A t \in Callers :
           pc[t] = "send" /\ pc'[t] = "idle" =>
             /\ sent'.sessionId = reason[t] /\ reason[t] # "kNone"
             /\ sent # None => sent'.sequenceNum = NextCount(sent.sequenceNum)]_vars
  <2> SUFFICES ASSUME TypeOK, Explained, [Next]_vars,
                      NEW t \in Callers, pc[t] = "send", pc'[t] = "idle"
               PROVE  /\ sent'.sessionId = reason[t] /\ reason[t] # "kNone"
                      /\ sent # None => sent'.sequenceNum = NextCount(sent.sequenceNum)
    OBVIOUS
  <2>1. \A u \in Callers : u = t
    BY DEF OneCaller
  <2>2. SendCommand(t)
    BY <2>1 DEF Next, Evaluate, vars, Initialise, EvaluateTooEarly, Check,
       CompareGuard, StoreGuard, StoreReason, Accept, Reject, NumberCommand
  <2>3. sent' = [sequenceNum |-> seq[t], sessionId |-> lastRejectReason]
    BY <2>2 DEF SendCommand
  <2>4. QED
    BY <2>1, <2>3 DEF Explained, ReasonStands, NumbersFollow
<1>4. QED
  BY <1>1, <1>2, <1>3, TypeCorrect, PTL DEF Spec, CommandExplained
=============================================================================
