---------------------- MODULE MCSotifPlausibilityGate ----------------------
(***************************************************************************)
(* Small instances of SotifPlausibilityGate: candidates on both sides of   *)
(* every threshold, two configurations that accept different ones, and one *)
(* that Init() refuses.                                                    *)
(***************************************************************************)
EXTENDS SotifPlausibilityGate, TLC

\* A scale of 4: thresholds as the defaults of the code, roughly, and tighter.
DefaultThresholds ==
  [maxConfidenceDisagreement |-> 1, minConfidence |-> 2,
   maxCalibrationDrift |-> 1, maxInputAgeMs |-> 1]
TightThresholds ==
  [maxConfidenceDisagreement |-> 0, minConfidence |-> 3,
   maxCalibrationDrift |-> 0, maxInputAgeMs |-> 0]
BadThresholds == [DefaultThresholds EXCEPT !.minConfidence = NaN]

TwoConfigs == {DefaultThresholds, TightThresholds, BadThresholds}
OneConfig == {DefaultThresholds}

Seen(primary, secondary, drift) ==
  [primaryConfidence |-> primary, secondaryConfidence |-> secondary,
   calibrationDriftMetric |-> drift]

Perceived ==
  {Seen(4, 4, 0), Seen(3, 4, 1), Seen(2, 2, 1), Seen(2, 4, 0), Seen(2, 1, 0),
   Seen(1, 2, 0), Seen(5, 4, 0), Seen(NaN, 4, 0), Seen(4, NaN, 0),
   Seen(4, 4, 2), Seen(4, 4, NaN), Seen(4, -1, 0)}

Stamped(seen, stamp, n) == seen @@ [timestampMs |-> stamp, sequenceNum |-> n]

\* Every reading at every age, with three sequence numbers from 0 on.
AllCandidates == {Stamped(s, 2, n) : s \in Perceived, n \in 0..2}
AnyTime == 1..4
=============================================================================
