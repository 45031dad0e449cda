-------------------------- MODULE DegradationMatrix --------------------------
(***************************************************************************)
(* The pure part of SafetyArbitrator: sensor domains, safe states ordered  *)
(* by severity, the degradation matrix that ComputeRequiredState() applies *)
(* to a fault bitmask, and the speed caps of ExecuteTransition().          *)
(*                                                                         *)
(* A bitmask is the set of the domains whose bit is set.  The repository   *)
(* holds two copies of the matrix: the one vendored by formal-verification *)
(* (most severe match, Required below) and the older one vendored by       *)
(* sotif-gate (first match, RequiredFirstMatch below).                     *)
(***************************************************************************)
EXTENDS Integers

\* enum class SensorDomain; kInvalid has a slot in domains_ like the others.
Lidar == 0
Radar == 1
Camera == 2
Gnss == 3
Imu == 4
V2X == 5
Uss == 6
Invalid == 7

SensorDomain == 0..7

\* kNumSensorDomains: "All valid domains".
ValidDomain == 0..6

\* enum class SafeState, in its declared order, which is the severity order.
FullOperation == 0
RadarCameraFallback == 1
LidarCameraFallback == 2
LidarRadarFallback == 3
DeadReckoningMode == 4
ReducedDynamics == 5
MinimalRiskCondition == 6
EmergencyStop == 7

SafeState == 0..7

\* kFaultThreshold
FaultThreshold == 3

-----------------------------------------------------------------------------
\* The rows of the matrix that a fault bitmask matches, plus the initial value
\* of `result`: the candidates handed to Escalate().
Matching(faults) ==
  {FullOperation}
    \cup {s \in {MinimalRiskCondition} : Lidar \in faults /\ Radar \in faults}
    \cup {s \in {RadarCameraFallback} : Lidar \in faults /\ Radar \notin faults}
    \cup {s \in {LidarCameraFallback} : Radar \in faults /\ Lidar \notin faults}
    \cup {s \in {LidarRadarFallback} : Camera \in faults}
    \cup {s \in {DeadReckoningMode} : Gnss \in faults /\ Imu \notin faults}
    \cup {s \in {ReducedDynamics} : Imu \in faults}

\* Escalate() keeps the greatest enum value it is handed.
MostSevere(states) == CHOOSE s \in states : \A t \in states : t <= s

\* The older copy: the first row that matches, in the order of its source.
FirstMatch(faults) ==
  IF Lidar \in faults /\ Radar \notin faults THEN RadarCameraFallback
  ELSE IF Radar \in faults /\ Lidar \notin faults THEN LidarCameraFallback
  ELSE IF Camera \in faults THEN LidarRadarFallback
  ELSE IF Gnss \in faults /\ Imu \notin faults THEN DeadReckoningMode
  ELSE IF Imu \in faults THEN ReducedDynamics
  ELSE FullOperation

MatrixState(faults) == MostSevere(Matching(faults))

\* The unconditional latch: some mandatory domain is failed, and some
\* mandatory domain -- not necessarily the same one -- has reached the fault
\* threshold.
MandatoryLatch(faults, mandatory, count) ==
  /\ faults \cap mandatory # {}
  /\ \E d \in mandatory : count[d] >= FaultThreshold

RequiredFirstMatch(faults, mandatory, count) ==
  IF \/ Lidar \in faults /\ Radar \in faults
     \/ MandatoryLatch(faults, mandatory, count)
  THEN MinimalRiskCondition
  ELSE FirstMatch(faults)

\* Mutant: the latch commands an emergency stop.
RequiredEmergency(faults, mandatory, count) ==
  IF MandatoryLatch(faults, mandatory, count)
  THEN EmergencyStop
  ELSE MatrixState(faults)

\* ComputeRequiredState()
Required(faults, mandatory, count) ==
  IF MandatoryLatch(faults, mandatory, count)
  THEN MinimalRiskCondition
  ELSE MatrixState(faults)

\* What the loss of one domain demands by itself, given what else has failed: the
\* header's matrix, domain by domain.  (GNSS is listed without "and IMU not
\* failed": the escalation makes that guard redundant.)
Demand(d, faults) ==
  CASE d \in {Lidar, Radar} /\ {Lidar, Radar} \subseteq faults -> MinimalRiskCondition
    [] d = Lidar /\ Radar \notin faults -> RadarCameraFallback
    [] d = Radar /\ Lidar \notin faults -> LidarCameraFallback
    [] d = Camera -> LidarRadarFallback
    [] d = Gnss -> DeadReckoningMode
    [] d = Imu -> ReducedDynamics
    [] OTHER -> FullOperation

-----------------------------------------------------------------------------
\* The limits that ExecuteTransition() puts into a command: kph, and the
\* percentage of kMaxLongitudinalDecelMps2.
MaxSpeedKph(state) ==
  CASE state = FullOperation -> 130
    [] state \in {RadarCameraFallback, LidarCameraFallback} -> 100
    [] state \in {LidarRadarFallback, DeadReckoningMode, ReducedDynamics} -> 30
    [] state = MinimalRiskCondition -> 20
    [] state = EmergencyStop -> 0

DecelPercent(state) ==
  CASE state = DeadReckoningMode -> 70
    [] state = ReducedDynamics -> 50
    [] state = MinimalRiskCondition -> 30
    [] OTHER -> 100

\* The primary trigger of a transition: the lowest fault bit, else kInvalid.
TriggerDomain(faults) ==
  IF faults = {} THEN Invalid
  ELSE CHOOSE d \in faults : \A e \in faults : d <= e
=============================================================================
