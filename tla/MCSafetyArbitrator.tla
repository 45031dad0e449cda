-------------------------- MODULE MCSafetyArbitrator --------------------------
(***************************************************************************)
(* SafetyArbitrator for TLC, and a statement of the repository's comments  *)
(* that the code does not keep.                                            *)
(***************************************************************************)
EXTENDS SafetyArbitrator

\* Of Arbitrate(): "state severity must never decrease without all sensors
\* recovering."  Less than that: when the severity decreases, one at least of the
\* domains in the published fault bitmask is nominal again.
NeverRelaxedUnrecovered ==
  [][currentState' < currentState => faultBitmask \cap activeBitmask' # {}]_vars
=============================================================================
