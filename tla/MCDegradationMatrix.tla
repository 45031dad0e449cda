------------------------- MODULE MCDegradationMatrix -------------------------
(***************************************************************************)
(* Enumerates the inputs of ComputeRequiredState(): every fault bitmask,   *)
(* every mandatory mask over LatchDomains and every set of domains         *)
(* that have reached the fault threshold.  A behaviour adds one fault at a *)
(* time, as the harness does for its 211 superset pairs; unlike the        *)
(* harness, which fixes the mandatory mask to 0, the latch takes part.     *)
(***************************************************************************)
EXTENDS VerificationHarness

CONSTANTS
  MaskDomains,    \* the domains whose fault bit is enumerated
  LatchDomains    \* the domains that may be mandatory or worn out

ASSUME MaskAssumption == MaskDomains \subseteq SensorDomain
ASSUME LatchAssumption == LatchDomains \subseteq SensorDomain

VARIABLES walkFaults, walkMandatory, wornOut

walkVars == <<walkFaults, walkMandatory, wornOut>>

Counts(w) == [d \in SensorDomain |-> IF d \in w THEN FaultThreshold ELSE 1]

walkRequired == Required(walkFaults, walkMandatory, Counts(wornOut))

WalkInit ==
  /\ walkFaults = {}
  /\ walkMandatory \in SUBSET LatchDomains
  /\ wornOut = {}

\* One more domain fails ...
OneMoreFails(d) ==
  /\ d \notin walkFaults
  /\ walkFaults' = walkFaults \cup {d}
  /\ UNCHANGED <<walkMandatory, wornOut>>

\* ... or a domain reaches the threshold (degraded reports count as well, so
\* it need not be failed).
OneMoreWearsOut(d) ==
  /\ d \notin wornOut
  /\ wornOut' = wornOut \cup {d}
  /\ UNCHANGED <<walkFaults, walkMandatory>>

WalkNext ==
  \/ \E d \in MaskDomains : OneMoreFails(d)
  \/ \E d \in LatchDomains : OneMoreWearsOut(d)

WalkSpec == WalkInit /\ [][WalkNext]_walkVars

-----------------------------------------------------------------------------
\* Every failed domain gets the restriction that its own loss demands, and no
\* more than the worst of these is required unless a mandatory domain is lost.
RequiredMeetsDemands ==
  /\ \A d \in walkFaults : walkRequired >= Demand(d, walkFaults)
  /\ \/ walkRequired = MinimalRiskCondition /\ walkFaults \cap walkMandatory # {}
     \/ \E d \in walkFaults : walkRequired = Demand(d, walkFaults)
     \/ walkFaults = {} /\ walkRequired = FullOperation

\* Finding F-02, with the latch: one more fault, or one more worn out
\* mandatory domain, never lowers the severity of the required state ...
SeverityMonotone == [][walkRequired' >= walkRequired]_walkVars

\* ... and never raises the speed or the braking that the command to the M7
\* allows.
LimitsMonotone ==
  [][/\ MaxSpeedKph(walkRequired') <= MaxSpeedKph(walkRequired)
     /\ DecelPercent(walkRequired') <= DecelPercent(walkRequired)]_walkVars

\* Properties 1 and 1b of the harness, mask by mask: on the domains that it
\* drives, the arbitrator is its reference model, the copy that sotif-gate vendors
\* is its model before the fix of F-02, and the fix never made a state milder.
HarnessAgrees ==
  walkFaults \subseteq kRelevantDomains =>
    LET real == DriveRealArbitrator(walkFaults)
        preFix == PriorityOrderedModel_PreFix(walkFaults)
    IN /\ real = ReferenceModel(walkFaults)
       /\ preFix = RequiredFirstMatch(walkFaults, {}, OneReport(walkFaults))
       /\ real >= preFix

\* The older copy's comment says "highest numeric SafeState wins when multiple
\* faults active": then one more fault could not lower the severity.
FirstMatchMonotone ==
  [][RequiredFirstMatch(walkFaults', walkMandatory', Counts(wornOut'))
       >= RequiredFirstMatch(walkFaults, walkMandatory, Counts(wornOut))]_walkVars

=============================================================================
