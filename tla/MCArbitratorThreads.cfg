SPECIFICATION Spec
CONSTANTS
  Reporters = {handler}
  Domain = 0
  SensorTimeout = 1
  FaultModulus = 3
  LogSlots = 3
  BufferSize = 3
  MaxTime = 3
  MaxTransitions = 5
  ClockModulus = 8
  Torn = torn
  Blank = blank
INVARIANTS
  FailureKept
  TimeoutsAreReal
  DrainedAllButOldest
