----------------------- MODULE DegradationMatrixProofs -----------------------
(***************************************************************************)
(* What ComputeRequiredState() returns for every fault bitmask, mandatory  *)
(* mask and fault counts: finding F-02 beyond the harness's enumeration,   *)
(* which fixes the mandatory mask to 0; the limits that the command takes  *)
(* from it; the harness's own models and verdict, which need no            *)
(* enumeration; and the walk that MCDegradationMatrix takes through the    *)
(* inputs.                                                                 *)
(***************************************************************************)
EXTENDS MCDegradationMatrix, FiniteSetTheorems, TLAPS

\* Escalate() returns the greatest of the states it was handed.
LEMMA MostSevereIsGreatest ==
  ASSUME NEW S \in SUBSET SafeState, S # {}
  PROVE  /\ MostSevere(S) \in S
         /\ \A t \in S : t <= MostSevere(S)
<1>1. \E s \in S : \A t \in S : t <= s
  <2>1. CASE 7 \in S
    BY <2>1 DEF SafeState
  <2>2. CASE 7 \notin S /\ 6 \in S
    BY <2>2 DEF SafeState
  <2>3. CASE 7 \notin S /\ 6 \notin S /\ 5 \in S
    BY <2>3 DEF SafeState
  <2>4. CASE 7 \notin S /\ 6 \notin S /\ 5 \notin S /\ 4 \in S
    BY <2>4 DEF SafeState
  <2>5. CASE 7 \notin S /\ 6 \notin S /\ 5 \notin S /\ 4 \notin S /\ 3 \in S
    BY <2>5 DEF SafeState
  <2>6. CASE /\ 7 \notin S /\ 6 \notin S /\ 5 \notin S /\ 4 \notin S
             /\ 3 \notin S /\ 2 \in S
    BY <2>6 DEF SafeState
  <2>7. CASE /\ 7 \notin S /\ 6 \notin S /\ 5 \notin S /\ 4 \notin S
             /\ 3 \notin S /\ 2 \notin S /\ 1 \in S
    BY <2>7 DEF SafeState
  <2>8. CASE /\ 7 \notin S /\ 6 \notin S /\ 5 \notin S /\ 4 \notin S
             /\ 3 \notin S /\ 2 \notin S /\ 1 \notin S
    <3>1. \A t \in S : t = 0
      BY <2>8 DEF SafeState
    <3>2. PICK s \in S : TRUE
      OBVIOUS
    <3>3. QED
      BY <3>1, <3>2
  <2>9. QED
    BY <2>1, <2>2, <2>3, <2>4, <2>5, <2>6, <2>7, <2>8
<1>2. QED
  BY <1>1 DEF MostSevere

\* The candidates of a bitmask: safe states, never the emergency stop.
LEMMA MatchingInRange ==
  ASSUME NEW faults
  PROVE  /\ Matching(faults) \in SUBSET SafeState
         /\ FullOperation \in Matching(faults)
         /\ EmergencyStop \notin Matching(faults)
BY DEF Matching, SafeState, FullOperation, RadarCameraFallback,
       LidarCameraFallback, LidarRadarFallback, DeadReckoningMode,
       ReducedDynamics, MinimalRiskCondition, EmergencyStop

\* The matrix never demands the emergency stop.
LEMMA MatrixStateInRange ==
  ASSUME NEW faults
  PROVE  MatrixState(faults) \in SafeState \ {EmergencyStop}
BY MatchingInRange, MostSevereIsGreatest DEF MatrixState

\* Each candidate of a bitmask is outdone by some candidate of a larger one,
\* although rows with a negated guard may stop matching.
LEMMA MatchingDominated ==
  ASSUME NEW f, NEW g, f \subseteq g, NEW s \in Matching(f)
  PROVE  \E t \in Matching(g) : s <= t
<1> USE DEF FullOperation, RadarCameraFallback, LidarCameraFallback,
            LidarRadarFallback, DeadReckoningMode, ReducedDynamics,
            MinimalRiskCondition
<1>1. CASE s \in {FullOperation, LidarRadarFallback, ReducedDynamics,
                  MinimalRiskCondition}
  BY <1>1 DEF Matching
<1>2. CASE s \in {RadarCameraFallback, LidarCameraFallback}
  <2>1. Lidar \in g \/ Radar \in g
    BY <1>2 DEF Matching
  <2>2. \/ MinimalRiskCondition \in Matching(g)
        \/ s \in Matching(g)
    BY <1>2, <2>1 DEF Matching
  <2>3. QED
    BY <1>2, <2>2
<1>3. CASE s = DeadReckoningMode
  <2>1. Gnss \in g
    BY <1>3 DEF Matching
  <2>2. s \in Matching(g) \/ ReducedDynamics \in Matching(g)
    BY <1>3, <2>1 DEF Matching
  <2>3. QED
    BY <1>3, <2>2
<1>4. QED
  BY <1>1, <1>2, <1>3 DEF Matching

\* One more fault never lowers what the matrix demands.
THEOREM MatrixMonotone ==
  ASSUME NEW f, NEW g, f \subseteq g
  PROVE  MatrixState(f) <= MatrixState(g)
<1>1. MatrixState(f) \in Matching(f)
  BY MatchingInRange, MostSevereIsGreatest DEF MatrixState
<1>2. PICK t \in Matching(g) : MatrixState(f) <= t
  BY <1>1, MatchingDominated
<1>3. t <= MatrixState(g)
  BY MatchingInRange, MostSevereIsGreatest DEF MatrixState
<1>4. t \in SafeState
  BY MatchingInRange
<1>5. QED
  BY <1>2, <1>3, <1>4, MatrixStateInRange DEF SafeState

\* Required() yields a safe state other than the emergency stop.
LEMMA RequiredType ==
  ASSUME NEW faults, NEW mandatory, NEW count
  PROVE  Required(faults, mandatory, count) \in SafeState \ {EmergencyStop}
BY MatrixStateInRange
   DEF Required, SafeState, EmergencyStop, MinimalRiskCondition

\* Severity monotonicity with the mandatory latch: more faults, or higher
\* fault counts, never lower the required state.
THEOREM RequiredMonotone ==
  ASSUME NEW D, NEW f, NEW g, f \subseteq g,
         NEW mandatory \in SUBSET D,
         NEW m \in [D -> Nat], NEW n \in [D -> Nat],
         \A d \in D : m[d] <= n[d]
  PROVE  Required(f, mandatory, m) <= Required(g, mandatory, n)
<1>1. CASE MandatoryLatch(g, mandatory, n)
  BY <1>1, RequiredType
     DEF Required, SafeState, EmergencyStop, MinimalRiskCondition
<1>2. CASE ~MandatoryLatch(g, mandatory, n)
  <2>1. ~MandatoryLatch(f, mandatory, m)
    <3>1. SUFFICES ASSUME MandatoryLatch(f, mandatory, m)
                   PROVE  FALSE
      OBVIOUS
    <3>2. g \cap mandatory # {}
      BY <3>1 DEF MandatoryLatch
    <3>3. PICK d \in mandatory : m[d] >= FaultThreshold
      BY <3>1 DEF MandatoryLatch
    <3>4. n[d] >= FaultThreshold
      BY <3>3 DEF FaultThreshold
    <3>5. QED
      BY <1>2, <3>2, <3>4 DEF MandatoryLatch
  <2>2. QED
    BY <1>2, <2>1, MatrixMonotone DEF Required
<1>3. QED
  BY <1>1, <1>2

\* Each demand of a failed domain is outdone by a row that the bitmask matches.
LEMMA DemandMatched ==
  ASSUME NEW faults, NEW d \in SensorDomain, d \in faults
  PROVE  \E t \in Matching(faults) : Demand(d, faults) <= t
<1> USE DEF FullOperation, RadarCameraFallback, LidarCameraFallback,
            LidarRadarFallback, DeadReckoningMode, ReducedDynamics,
            MinimalRiskCondition, Lidar, Radar, Camera, Gnss, Imu
<1>1. CASE d \in {Lidar, Radar}
  BY <1>1 DEF Demand, Matching
<1>2. CASE d = Camera \/ d = Imu
  BY <1>2 DEF Demand, Matching
<1>3. CASE d = Gnss
  BY <1>3 DEF Demand, Matching
<1>4. CASE d \notin {Lidar, Radar, Camera, Gnss, Imu}
  BY <1>4 DEF Demand, Matching
<1>5. QED
  BY <1>1, <1>2, <1>3, <1>4

\* Every failed domain gets at least the restriction its own loss demands,
\* whatever else has failed, whichever domains are mandatory and however often
\* they have failed.
THEOREM DemandsMet ==
  ASSUME NEW faults, NEW mandatory, NEW count,
         NEW d \in SensorDomain, d \in faults
  PROVE  Required(faults, mandatory, count) >= Demand(d, faults)
<1>1. Demand(d, faults) \in 0 .. 6
  BY DEF Demand, FullOperation, RadarCameraFallback, LidarCameraFallback,
         LidarRadarFallback, DeadReckoningMode, ReducedDynamics,
         MinimalRiskCondition
<1>2. CASE MandatoryLatch(faults, mandatory, count)
  BY <1>1, <1>2 DEF Required, MinimalRiskCondition
<1>3. CASE ~MandatoryLatch(faults, mandatory, count)
  <2>1. PICK t \in Matching(faults) : Demand(d, faults) <= t
    BY DemandMatched
  <2>2. t <= MatrixState(faults) /\ t \in SafeState
    BY MatchingInRange, MostSevereIsGreatest DEF MatrixState
  <2>3. MatrixState(faults) \in SafeState
    BY MatrixStateInRange
  <2>4. QED
    BY <1>1, <1>3, <2>1, <2>2, <2>3 DEF Required, SafeState
<1>4. QED
  BY <1>2, <1>3

\* What a bitmask matches, some failed domain demands.
LEMMA MatchDemanded ==
  ASSUME NEW faults \in SUBSET SensorDomain, NEW s \in Matching(faults),
         s # FullOperation
  PROVE  \E d \in faults : s <= Demand(d, faults)
<1> USE DEF FullOperation, RadarCameraFallback, LidarCameraFallback,
            LidarRadarFallback, DeadReckoningMode, ReducedDynamics,
            MinimalRiskCondition, Lidar, Radar, Camera, Gnss, Imu
<1>1. CASE s = MinimalRiskCondition
  BY <1>1 DEF Demand, Matching
<1>2. CASE s = RadarCameraFallback
  BY <1>2 DEF Demand, Matching
<1>3. CASE s = LidarCameraFallback
  BY <1>3 DEF Demand, Matching
<1>4. CASE s = LidarRadarFallback
  BY <1>4 DEF Demand, Matching
<1>5. CASE s = DeadReckoningMode
  BY <1>5 DEF Demand, Matching
<1>6. CASE s = ReducedDynamics
  BY <1>6 DEF Demand, Matching
<1>7. QED
  BY <1>1, <1>2, <1>3, <1>4, <1>5, <1>6 DEF Matching

\* No more is required than the worst of what the failed domains demand, unless
\* the latch holds: the vehicle is not restricted without a cause.
THEOREM NothingWithoutDemand ==
  ASSUME NEW faults \in SUBSET SensorDomain, NEW mandatory, NEW count
  PROVE  \/ /\ Required(faults, mandatory, count) = MinimalRiskCondition
            /\ faults \cap mandatory # {}
         \/ \E d \in faults :
              Required(faults, mandatory, count) = Demand(d, faults)
         \/ faults = {} /\ Required(faults, mandatory, count) = FullOperation
<1> DEFINE r == MatrixState(faults)
<1>1. CASE MandatoryLatch(faults, mandatory, count)
  BY <1>1 DEF Required, MandatoryLatch
<1>2. CASE ~MandatoryLatch(faults, mandatory, count) /\ r # FullOperation
  <2>1. r \in Matching(faults) /\ r \in SafeState
    BY MatchingInRange, MostSevereIsGreatest DEF MatrixState
  <2>2. PICK d \in faults : r <= Demand(d, faults)
    BY <1>2, <2>1, MatchDemanded
  <2>3. Demand(d, faults) \in 0 .. 6 /\ Demand(d, faults) <= r
    <3>1. d \in SensorDomain
      OBVIOUS
    <3>2. Required(faults, {}, count) >= Demand(d, faults)
      BY <3>1, DemandsMet
    <3>3. Required(faults, {}, count) = r
      BY DEF Required, MandatoryLatch
    <3>4. QED
      BY <2>1, <3>2, <3>3
         DEF Demand, FullOperation, RadarCameraFallback, LidarCameraFallback,
             LidarRadarFallback, DeadReckoningMode, ReducedDynamics,
             MinimalRiskCondition, SafeState
  <2>4. r = Demand(d, faults)
    BY <2>1, <2>2, <2>3 DEF SafeState
  <2>5. QED
    BY <1>2, <2>4 DEF Required
<1>3. CASE ~MandatoryLatch(faults, mandatory, count) /\ r = FullOperation
  <2>1. Required(faults, mandatory, count) = 0
    BY <1>3 DEF Required, FullOperation
  <2>2. ASSUME NEW d \in faults
        PROVE  Demand(d, faults) = 0
    <3>1. 0 >= Demand(d, faults)
      BY <2>1, DemandsMet
    <3>2. Demand(d, faults) \in 0 .. 6
      BY DEF Demand, FullOperation, RadarCameraFallback, LidarCameraFallback,
             LidarRadarFallback, DeadReckoningMode, ReducedDynamics,
             MinimalRiskCondition
    <3>3. QED
      BY <3>1, <3>2
  <2>3. QED
    BY <2>1, <2>2 DEF FullOperation
<1>4. QED
  BY <1>1, <1>2, <1>3

\* A more severe state allows neither more speed nor more braking, the emergency
\* stop apart, which demands full braking.
LEMMA LimitsFollowSeverity ==
  ASSUME NEW s \in SafeState \ {EmergencyStop}, NEW t \in SafeState \ {EmergencyStop},
         s <= t
  PROVE  /\ MaxSpeedKph(t) <= MaxSpeedKph(s)
         /\ DecelPercent(t) <= DecelPercent(s)
BY DEF MaxSpeedKph, DecelPercent, SafeState, FullOperation, RadarCameraFallback,
       LidarCameraFallback, LidarRadarFallback, DeadReckoningMode,
       ReducedDynamics, MinimalRiskCondition, EmergencyStop

\* More faults, or higher fault counts, never raise the speed or the braking that
\* the command to the M7 allows.
THEOREM LimitsTighten ==
  ASSUME NEW D, NEW f, NEW g, f \subseteq g,
         NEW mandatory \in SUBSET D,
         NEW m \in [D -> Nat], NEW n \in [D -> Nat],
         \A d \in D : m[d] <= n[d]
  PROVE  /\ MaxSpeedKph(Required(g, mandatory, n))
              <= MaxSpeedKph(Required(f, mandatory, m))
         /\ DecelPercent(Required(g, mandatory, n))
              <= DecelPercent(Required(f, mandatory, m))
<1>1. Required(f, mandatory, m) <= Required(g, mandatory, n)
  BY RequiredMonotone
<1>2. QED
  BY <1>1, RequiredType, LimitsFollowSeverity

-----------------------------------------------------------------------------
\* The harness.  Which of its seven rows apply to a set of failed domains, and
\* the states of these rows.
LEMMA RowsApplicable ==
  ASSUME NEW f
  PROVE  /\ DOMAIN Rows = 1..7
         /\ Rows[1].state = 6 /\ Rows[2].state = 1 /\ Rows[3].state = 2
         /\ Rows[4].state = 3 /\ Rows[5].state = 4 /\ Rows[6].state = 5
         /\ Rows[7].state = 0
         /\ Applicable(f) \subseteq 1..7
         /\ 1 \in Applicable(f) <=> Lidar \in f /\ Radar \in f
         /\ 2 \in Applicable(f) <=> Lidar \in f /\ Radar \notin f
         /\ 3 \in Applicable(f) <=> Radar \in f /\ Lidar \notin f
         /\ 4 \in Applicable(f) <=> Camera \in f
         /\ 5 \in Applicable(f) <=> Gnss \in f /\ Imu \notin f
         /\ 6 \in Applicable(f) <=> Imu \in f
         /\ 7 \in Applicable(f)
<1>1. DOMAIN Rows = 1..7
  BY DEF Rows
<1>2. /\ Rows[1] = Row({Lidar, Radar}, {}, MinimalRiskCondition)
      /\ Rows[2] = Row({Lidar}, {Radar}, RadarCameraFallback)
      /\ Rows[3] = Row({Radar}, {Lidar}, LidarCameraFallback)
      /\ Rows[4] = Row({Camera}, {}, LidarRadarFallback)
      /\ Rows[5] = Row({Gnss}, {Imu}, DeadReckoningMode)
      /\ Rows[6] = Row({Imu}, {}, ReducedDynamics)
      /\ Rows[7] = Row({}, {}, FullOperation)
  BY DEF Rows
<1>3. \A i \in 1..7 :
        i \in Applicable(f) <=> Rows[i].all \subseteq f /\ Rows[i].none \cap f = {}
  BY <1>1 DEF Applicable
<1>4. QED
  BY <1>1, <1>2, <1>3
     DEF Applicable, Row, FullOperation, RadarCameraFallback, LidarCameraFallback,
         LidarRadarFallback, DeadReckoningMode, ReducedDynamics,
         MinimalRiskCondition

\* The harness's reference model is the matrix of the arbitrator, for every set of
\* failed domains, V2X and USS included.
THEOREM ReferenceIsMatrix ==
  ASSUME NEW f
  PROVE  ReferenceModel(f) = MatrixState(f)
<1> DEFINE S == {Rows[i].state : i \in Applicable(f)}
<1>1. S = Matching(f)
  <2>1. \A i \in Applicable(f) : i \in {1, 2, 3, 4, 5, 6, 7}
    BY RowsApplicable
  <2>2. \A s \in S : s \in Matching(f)
    BY <2>1, RowsApplicable
       DEF Matching, FullOperation, RadarCameraFallback, LidarCameraFallback,
           LidarRadarFallback, DeadReckoningMode, ReducedDynamics,
           MinimalRiskCondition
  <2>3. \A s \in Matching(f) : s \in S
    BY RowsApplicable
       DEF Matching, FullOperation, RadarCameraFallback, LidarCameraFallback,
           LidarRadarFallback, DeadReckoningMode, ReducedDynamics,
           MinimalRiskCondition
  <2>4. QED
    BY <2>2, <2>3
<1>2. MatrixState(f) \in S /\ \A t \in S : t <= MatrixState(f)
  BY <1>1, MatchingInRange, MostSevereIsGreatest DEF MatrixState
<1>3. ReferenceModel(f) \in S /\ \A t \in S : t <= ReferenceModel(f)
  <2>1. \A i \in Applicable(f) : Rows[i].state <= MatrixState(f)
    BY <1>2
  <2>2. /\ ReferenceModel(f) \in S
        /\ \A i \in Applicable(f) : Rows[i].state <= ReferenceModel(f)
    BY <1>2, <2>1 DEF ReferenceModel
  <2>3. QED
    BY <2>2
<1>4. S \subseteq Int
  BY <1>1, MatchingInRange DEF SafeState
<1> HIDE DEF S
<1>5. /\ MatrixState(f) \in Int /\ ReferenceModel(f) \in Int
      /\ MatrixState(f) <= ReferenceModel(f) /\ ReferenceModel(f) <= MatrixState(f)
  BY <1>2, <1>3, <1>4
<1>6. QED
  BY <1>5

\* Its model of the behaviour before the fix is the copy of the matrix that
\* sotif-gate vendors, for every set of failed domains.
THEOREM PreFixIsFirstMatch ==
  ASSUME NEW f, NEW count
  PROVE  PriorityOrderedModel_PreFix(f) = RequiredFirstMatch(f, {}, count)
<1> DEFINE A == Applicable(f)
           first == CHOOSE i \in A : \A j \in A : i <= j
<1>1. A \subseteq 1..7 /\ 7 \in A
  BY RowsApplicable
<1>2. ASSUME NEW i \in A, \A j \in A : i <= j
      PROVE  first = i
  BY <1>1, <1>2
<1>3. PriorityOrderedModel_PreFix(f) = Rows[first].state
  BY DEF PriorityOrderedModel_PreFix
<1>4. /\ 1 \in A => first = 1
      /\ 1 \notin A /\ 2 \in A => first = 2
      /\ 1 \notin A /\ 2 \notin A /\ 3 \in A => first = 3
      /\ 1 \notin A /\ 2 \notin A /\ 3 \notin A /\ 4 \in A => first = 4
      /\ 1 \notin A /\ 2 \notin A /\ 3 \notin A /\ 4 \notin A /\ 5 \in A => first = 5
      /\ 1 \notin A /\ 2 \notin A /\ 3 \notin A /\ 4 \notin A /\ 5 \notin A /\ 6 \in A
           => first = 6
      /\ A = {7} => first = 7
  <2> HIDE DEF A, first
  <2>1. CASE 1 \in A
    BY <1>1, <1>2, <2>1
  <2>2. CASE 1 \notin A /\ 2 \in A
    BY <1>1, <1>2, <2>2
  <2>3. CASE 1 \notin A /\ 2 \notin A /\ 3 \in A
    BY <1>1, <1>2, <2>3
  <2>4. CASE 1 \notin A /\ 2 \notin A /\ 3 \notin A /\ 4 \in A
    BY <1>1, <1>2, <2>4
  <2>5. CASE 1 \notin A /\ 2 \notin A /\ 3 \notin A /\ 4 \notin A /\ 5 \in A
    BY <1>1, <1>2, <2>5
  <2>6. CASE /\ 1 \notin A /\ 2 \notin A /\ 3 \notin A /\ 4 \notin A /\ 5 \notin A
             /\ 6 \in A
    BY <1>1, <1>2, <2>6
  <2>7. CASE A = {7}
    BY <1>1, <1>2, <2>7
  <2>8. QED
    BY <2>1, <2>2, <2>3, <2>4, <2>5, <2>6, <2>7
<1>5. /\ 1 \notin A /\ 2 \notin A /\ 3 \notin A /\ 4 \notin A /\ 5 \notin A /\ 6 \notin A
           => A = {7}
  BY <1>1
<1> HIDE DEF first
<1>6. ~MandatoryLatch(f, {}, count)
  BY DEF MandatoryLatch
<1>7. QED
  BY <1>3, <1>4, <1>5, <1>6, RowsApplicable
     DEF RequiredFirstMatch, FirstMatch, FullOperation, RadarCameraFallback,
         LidarCameraFallback, LidarRadarFallback, DeadReckoningMode,
         ReducedDynamics, MinimalRiskCondition

\* The masks that the fix of F-02 changed: one of lidar and radar has failed and
\* something besides, or the camera and a positioning sensor without the two.
Changes(f) ==
  \/ /\ Lidar \in f <=> Radar \notin f
     /\ Camera \in f \/ Gnss \in f \/ Imu \in f
  \/ Lidar \notin f /\ Radar \notin f /\ Camera \in f /\ (Gnss \in f \/ Imu \in f)

LEMMA FirstMatchDiffers ==
  ASSUME NEW f, NEW count
  PROVE  IF Changes(f)
         THEN MatrixState(f) > RequiredFirstMatch(f, {}, count)
         ELSE MatrixState(f) = RequiredFirstMatch(f, {}, count)
<1> USE DEF FullOperation, RadarCameraFallback, LidarCameraFallback,
            LidarRadarFallback, DeadReckoningMode, ReducedDynamics,
            MinimalRiskCondition
<1> DEFINE m == MatrixState(f)
<1>1. m \in Matching(f) /\ m \in SafeState /\ \A t \in Matching(f) : t <= m
  BY MatchingInRange, MostSevereIsGreatest DEF MatrixState
<1>2. ~MandatoryLatch(f, {}, count)
  BY DEF MandatoryLatch
<1> HIDE DEF m
<1>3. m = IF Lidar \in f /\ Radar \in f THEN 6
          ELSE IF Imu \in f THEN 5
          ELSE IF Gnss \in f THEN 4
          ELSE IF Camera \in f THEN 3
          ELSE IF Radar \in f THEN 2
          ELSE IF Lidar \in f THEN 1
          ELSE 0
  BY <1>1 DEF Matching, SafeState
<1>4. QED
  BY <1>2, <1>3 DEF m, Changes, RequiredFirstMatch, FirstMatch

\* A numbering of these masks, and the mask that bears a number: 1..7 with the
\* lidar, 8..14 with the radar, 15..17 with neither.
NumberOf(f) ==
  LET bit(d, weight) == IF d \in f THEN weight ELSE 0
  IN  IF Lidar \in f THEN bit(Camera, 1) + bit(Gnss, 2) + bit(Imu, 4)
      ELSE IF Radar \in f THEN 7 + bit(Camera, 1) + bit(Gnss, 2) + bit(Imu, 4)
      ELSE 14 + bit(Gnss, 1) + bit(Imu, 2)

Numbered(n) ==
  {d \in kRelevantDomains :
     \/ d = Lidar /\ n \in 1..7
     \/ d = Radar /\ n \in 8..14
     \/ d = Camera /\ n \in {1, 3, 5, 7, 8, 10, 12, 14, 15, 16, 17}
     \/ d = Gnss /\ n \in {2, 3, 6, 7, 9, 10, 13, 14, 15, 17}
     \/ d = Imu /\ n \in {4, 5, 6, 7, 11, 12, 13, 14, 16, 17}}

LEMMA NumberingWorks ==
  /\ \A n \in 1..17 : Changes(Numbered(n)) /\ NumberOf(Numbered(n)) = n
  /\ \A f \in SUBSET kRelevantDomains :
       Changes(f) => NumberOf(f) \in 1..17 /\ Numbered(NumberOf(f)) = f
<1> USE DEF Lidar, Radar, Camera, Gnss, Imu, kRelevantDomains
<1>1. ASSUME NEW n \in 1..17
      PROVE  Changes(Numbered(n)) /\ NumberOf(Numbered(n)) = n
  <2>1. /\ 0 \in Numbered(n) <=> n \in 1..7
        /\ 1 \in Numbered(n) <=> n \in 8..14
        /\ 2 \in Numbered(n) <=> n \in {1, 3, 5, 7, 8, 10, 12, 14, 15, 16, 17}
        /\ 3 \in Numbered(n) <=> n \in {2, 3, 6, 7, 9, 10, 13, 14, 15, 17}
        /\ 4 \in Numbered(n) <=> n \in {4, 5, 6, 7, 11, 12, 13, 14, 16, 17}
    BY DEF Numbered
  <2>2. Changes(Numbered(n))
    BY <2>1 DEF Changes
  <2>3. NumberOf(Numbered(n)) = n
    BY <2>1 DEF NumberOf
  <2>4. QED
    BY <2>2, <2>3
<1>2. ASSUME NEW f \in SUBSET kRelevantDomains, Changes(f)
      PROVE  NumberOf(f) \in 1..17 /\ Numbered(NumberOf(f)) = f
  <2> DEFINE n == NumberOf(f)
  <2>1. /\ n \in 1..17
        /\ 0 \in f <=> n \in 1..7
        /\ 1 \in f <=> n \in 8..14
        /\ 2 \in f <=> n \in {1, 3, 5, 7, 8, 10, 12, 14, 15, 16, 17}
        /\ 3 \in f <=> n \in {2, 3, 6, 7, 9, 10, 13, 14, 15, 17}
        /\ 4 \in f <=> n \in {4, 5, 6, 7, 11, 12, 13, 14, 16, 17}
    BY <1>2 DEF NumberOf, Changes
  <2> HIDE DEF n
  <2>2. \A d : d \in f <=> d \in Numbered(n)
    BY <2>1 DEF Numbered
  <2>3. QED
    BY <2>1, <2>2 DEF n
<1>3. QED
  BY <1>1, <1>2

\* What the harness makes of a fresh arbitrator comes down to the matrix: the
\* bitmask after its reports is the mask it was given, and no domain is mandatory.
LEMMA DriveIsMatrix ==
  ASSUME NEW f \in SUBSET kRelevantDomains
  PROVE  DriveRealArbitrator(f) = MatrixState(f)
<1> DEFINE faults == {d \in SensorDomain : ReportedHealth(f)[d] = "failed"}
<1>1. \A d \in SensorDomain : d \in faults <=> d \in f
  BY DEF ReportedHealth
<1>2. f \subseteq SensorDomain
  BY DEF kRelevantDomains, SensorDomain, Lidar, Radar, Camera, Gnss, Imu
<1>3. faults = f
  BY <1>1, <1>2
<1>4. QED
  BY <1>3 DEF DriveRealArbitrator, Required, MandatoryLatch

\* The harness's verdict on the fix of F-02, without running through the masks:
\* the arbitrator is its reference model, sotif-gate's copy is the model before
\* the fix, and the two differ on 17 masks, in each of them for the more severe.
THEOREM FixAsExpected == FixChangedExactlyTheExpectedCases
<1> DEFINE Masks == SUBSET kRelevantDomains
           Changed == {f \in Masks :
                         DriveRealArbitrator(f) # PriorityOrderedModel_PreFix(f)}
<1>1. ASSUME NEW f \in Masks
      PROVE  /\ DriveRealArbitrator(f) = MatrixState(f)
             /\ PriorityOrderedModel_PreFix(f) = RequiredFirstMatch(f, {}, OneReport(f))
             /\ IF Changes(f)
                THEN DriveRealArbitrator(f) > PriorityOrderedModel_PreFix(f)
                ELSE DriveRealArbitrator(f) = PriorityOrderedModel_PreFix(f)
  <2>1. DriveRealArbitrator(f) = MatrixState(f)
    BY DriveIsMatrix
  <2>2. PriorityOrderedModel_PreFix(f) = RequiredFirstMatch(f, {}, OneReport(f))
    BY PreFixIsFirstMatch
  <2>3. QED
    BY <2>1, <2>2, FirstMatchDiffers
<1>2. \A f \in Masks : DriveRealArbitrator(f) \in Int
  BY <1>1, MatrixStateInRange DEF SafeState
<1>3. \A f \in Masks : Changes(f) <=> f \in Changed
  <2> TAKE f \in Masks
  <2> DEFINE real == DriveRealArbitrator(f)
             old == PriorityOrderedModel_PreFix(f)
  <2>1. real \in Int /\ IF Changes(f) THEN real > old ELSE real = old
    BY <1>1, <1>2
  <2>2. old \in Int
    BY PreFixIsFirstMatch
       DEF RequiredFirstMatch, FirstMatch, FullOperation, RadarCameraFallback,
           LidarCameraFallback, LidarRadarFallback, DeadReckoningMode,
           ReducedDynamics, MinimalRiskCondition
  <2> HIDE DEF real, old
  <2>3. Changes(f) <=> real # old
    BY <2>1, <2>2
  <2>4. QED
    BY <2>3 DEF real, old
<1>4. Cardinality(Changed) = 17
  <2> DEFINE number == [n \in 1..17 |-> Numbered(n)]
  <2>1. \A n \in 1..17 : Numbered(n) \in Masks
    BY DEF Numbered
  <2> HIDE DEF Changed
  <2>2. number \in [1..17 -> Changed]
    BY <1>3, <2>1, NumberingWorks
  <2>3. \A m, n \in 1..17 : number[m] = number[n] => m = n
    BY NumberingWorks
  <2>4. \A f \in Changed : \E n \in 1..17 : number[n] = f
    <3> TAKE f \in Changed
    <3>1. f \in Masks /\ Changes(f)
      BY <1>3 DEF Changed
    <3>2. QED
      BY <3>1, NumberingWorks
  <2>5. ExistsBijection(1..17, Changed)
    BY <2>2, <2>3, <2>4
       DEF ExistsBijection, Bijection, Injection, Surjection, IsInjective
  <2>6. QED
    BY <2>5, FS_CountingElements
<1>5. QED
  BY <1>1, <1>3, <1>4, ReferenceIsMatrix DEF FixChangedExactlyTheExpectedCases

-----------------------------------------------------------------------------
\* The walk through the inputs, for any domains.

WalkType ==
  /\ walkFaults \in SUBSET SensorDomain
  /\ walkMandatory \in SUBSET SensorDomain
  /\ wornOut \in SUBSET SensorDomain

LEMMA WalkTypeStep ==
  ASSUME WalkType, [WalkNext]_walkVars
  PROVE  WalkType'
BY MaskAssumption, LatchAssumption
   DEF WalkType, WalkNext, OneMoreFails, OneMoreWearsOut, walkVars

LEMMA WalkInvariance == WalkSpec => []WalkType
<1>1. WalkInit => WalkType
  BY LatchAssumption DEF WalkInit, WalkType
<1>2. WalkType /\ [WalkNext]_walkVars => WalkType'
  BY WalkTypeStep
<1>3. QED
  BY <1>1, <1>2, PTL DEF WalkSpec

\* ComputeRequiredState(): every lost domain gets its restriction and nothing is
\* restricted without a loss that demands it, whichever domains fail, are
\* mandatory or reach the fault threshold, in any order.
THEOREM WalkMeetsDemands == WalkSpec => []RequiredMeetsDemands
<1>1. WalkType => RequiredMeetsDemands
  <2> SUFFICES ASSUME WalkType PROVE RequiredMeetsDemands
    OBVIOUS
  <2>1. \A d \in walkFaults : walkRequired >= Demand(d, walkFaults)
    BY DemandsMet DEF WalkType, walkRequired
  <2>2. \/ walkRequired = MinimalRiskCondition /\ walkFaults \cap walkMandatory # {}
        \/ \E d \in walkFaults : walkRequired = Demand(d, walkFaults)
        \/ walkFaults = {} /\ walkRequired = FullOperation
    BY NothingWithoutDemand DEF WalkType, walkRequired
  <2>3. QED
    BY <2>1, <2>2 DEF RequiredMeetsDemands
<1>2. QED
  BY <1>1, WalkInvariance, PTL

\* What a step of the walk adds.
LEMMA WalkAdds ==
  ASSUME WalkType, [WalkNext]_walkVars
  PROVE  /\ walkFaults \subseteq walkFaults' /\ walkMandatory' = walkMandatory
         /\ Counts(wornOut) \in [SensorDomain -> Nat]
         /\ Counts(wornOut)' \in [SensorDomain -> Nat]
         /\ \A d \in SensorDomain : Counts(wornOut)[d] <= Counts(wornOut)'[d]
<1>1. /\ walkFaults \subseteq walkFaults' /\ walkMandatory' = walkMandatory
      /\ wornOut \subseteq wornOut'
  BY DEF WalkNext, OneMoreFails, OneMoreWearsOut, walkVars
<1>2. QED
  BY <1>1 DEF Counts, FaultThreshold

\* Finding F-02 with the mandatory latch, for every order in which domains fail
\* and wear out.
THEOREM WalkSeverityMonotone == WalkSpec => SeverityMonotone
<1>1. WalkType /\ [WalkNext]_walkVars => [walkRequired' >= walkRequired]_walkVars
  <2> SUFFICES ASSUME WalkType, [WalkNext]_walkVars
               PROVE  walkRequired' >= walkRequired
    OBVIOUS
  <2>1. walkRequired <= walkRequired'
    BY WalkAdds, RequiredMonotone DEF WalkType, walkRequired
  <2>2. walkRequired \in SafeState /\ walkRequired' \in SafeState
    BY RequiredType DEF walkRequired
  <2>3. QED
    BY <2>1, <2>2 DEF SafeState
<1>2. QED
  BY <1>1, WalkInvariance, PTL DEF WalkSpec, SeverityMonotone

\* So the limits that ExecuteTransition() would put into the command only
\* tighten on the way.
THEOREM WalkLimitsMonotone == WalkSpec => LimitsMonotone
<1>1. WalkType /\ [WalkNext]_walkVars
        => [/\ MaxSpeedKph(walkRequired') <= MaxSpeedKph(walkRequired)
            /\ DecelPercent(walkRequired') <= DecelPercent(walkRequired)]_walkVars
  <2> SUFFICES ASSUME WalkType, [WalkNext]_walkVars
               PROVE  /\ MaxSpeedKph(walkRequired') <= MaxSpeedKph(walkRequired)
                      /\ DecelPercent(walkRequired') <= DecelPercent(walkRequired)
    OBVIOUS
  <2>1. QED
    BY WalkAdds, LimitsTighten DEF WalkType, walkRequired
<1>2. QED
  BY <1>1, WalkInvariance, PTL DEF WalkSpec, LimitsMonotone

\* Properties 1 and 1b of the harness, on whatever masks the walk meets.
THEOREM WalkAgreesWithHarness == WalkSpec => []HarnessAgrees
<1> DEFINE real == DriveRealArbitrator(walkFaults)
           preFix == PriorityOrderedModel_PreFix(walkFaults)
<1>1. walkFaults \subseteq kRelevantDomains => real = ReferenceModel(walkFaults)
  BY ReferenceIsMatrix, DriveIsMatrix
<1>2. preFix = RequiredFirstMatch(walkFaults, {}, OneReport(walkFaults))
  BY PreFixIsFirstMatch
<1>3. walkFaults \subseteq kRelevantDomains => real >= preFix
  <2> SUFFICES ASSUME walkFaults \in SUBSET kRelevantDomains PROVE real >= preFix
    OBVIOUS
  <2>1. FixChangedExactlyTheExpectedCases
    BY FixAsExpected
  <2>2. real # preFix => real > preFix
    BY <2>1 DEF FixChangedExactlyTheExpectedCases
  <2>3. real \in SafeState
    BY DriveIsMatrix, MatrixStateInRange
  <2>4. preFix \in Int
    BY <1>2
       DEF RequiredFirstMatch, FirstMatch, FullOperation, RadarCameraFallback,
           LidarCameraFallback, LidarRadarFallback, DeadReckoningMode,
           ReducedDynamics, MinimalRiskCondition
  <2> HIDE DEF real, preFix
  <2>5. QED
    BY <2>2, <2>3, <2>4 DEF SafeState
<1>4. HarnessAgrees
  BY <1>1, <1>2, <1>3 DEF HarnessAgrees
<1>5. QED
  BY <1>4, PTL
=============================================================================
