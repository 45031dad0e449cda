SPECIFICATION WalkSpec
CONSTANTS
  MaskDomains = {0, 1, 2, 3, 4, 5, 6, 7}
  LatchDomains = {0, 1, 2}
INVARIANTS
  RequiredMeetsDemands
  HarnessAgrees
PROPERTIES
  SeverityMonotone
  LimitsMonotone
CHECK_DEADLOCK FALSE
