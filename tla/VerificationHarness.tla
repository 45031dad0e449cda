------------------------- MODULE VerificationHarness --------------------------
(***************************************************************************)
(* The harness of formal-verification: its two models of the degradation   *)
(* matrix and what it makes of the compiled arbitrator, for the five       *)
(* domains it drives.                                                      *)
(***************************************************************************)
EXTENDS DegradationMatrix, Sequences, FiniteSets

kRelevantDomains == {Lidar, Radar, Camera, Gnss, Imu}

\* Both models run through the same conditions: a row applies if all of `all`
\* and none of `none` have failed.
Row(all, none, state) == [all |-> all, none |-> none, state |-> state]
Rows ==
  << Row({Lidar, Radar}, {}, MinimalRiskCondition),
     Row({Lidar}, {Radar}, RadarCameraFallback),
     Row({Radar}, {Lidar}, LidarCameraFallback),
     Row({Camera}, {}, LidarRadarFallback),
     Row({Gnss}, {Imu}, DeadReckoningMode),
     Row({Imu}, {}, ReducedDynamics),
     Row({}, {}, FullOperation) >>

Applicable(failed) ==
  {i \in DOMAIN Rows :
     Rows[i].all \subseteq failed /\ Rows[i].none \cap failed = {}}

\* The most severe of the rows that apply ...
ReferenceModel(failed) ==
  CHOOSE s \in {Rows[i].state : i \in Applicable(failed)} :
    \A i \in Applicable(failed) : Rows[i].state <= s

\* ... and the first of them, the behaviour before the fix of F-02.
PriorityOrderedModel_PreFix(failed) ==
  Rows[CHOOSE i \in Applicable(failed) : \A j \in Applicable(failed) : i <= j].state

\* The drive of a fresh arbitrator.  After Init(0), one IngestFault() for each
\* relevant domain stores its health ...
ReportedHealth(failed) ==
  [d \in SensorDomain |->
     IF d \notin kRelevantDomains THEN "unknown"
     ELSE IF d \in failed THEN "failed" ELSE "nominal"]

\* ... and counts a failed one, while a nominal one resets its count.
OneReport(failed) == [d \in SensorDomain |-> IF d \in failed THEN 1 ELSE 0]

\* One Arbitrate(): no heartbeat is old enough for a timeout, the bitmask is
\* what was reported, and the state leaves kFullOperation for the required one.
DriveRealArbitrator(failed) ==
  LET faultBitmask == {d \in SensorDomain : ReportedHealth(failed)[d] = "failed"}
  IN  Required(faultBitmask, {}, OneReport(failed))

-----------------------------------------------------------------------------
\* Properties 1 and 1b of the harness, and its claim that the historical model
\* is the older code: the arbitrator agrees with ReferenceModel on all 32 masks,
\* the fix changed 17 of them, each towards the more severe, and the copy that
\* sotif-gate vendors is the behaviour before it.
FixChangedExactlyTheExpectedCases ==
  LET Masks == SUBSET kRelevantDomains
      Changed == {f \in Masks :
                    DriveRealArbitrator(f) # PriorityOrderedModel_PreFix(f)}
  IN /\ \A f \in Masks : DriveRealArbitrator(f) = ReferenceModel(f)
     /\ Cardinality(Changed) = 17
     /\ \A f \in Changed :
          DriveRealArbitrator(f) > PriorityOrderedModel_PreFix(f)
     /\ \A f \in Masks :
          RequiredFirstMatch(f, {}, OneReport(f)) = PriorityOrderedModel_PreFix(f)
=============================================================================
