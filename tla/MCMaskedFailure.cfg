SPECIFICATION Spec
CONSTANTS
  Reporters = {frames, handler}
  Domain = 0
  SensorTimeout = 1
  FaultModulus = 3
  LogSlots = 1
  BufferSize = 1
  MaxTime = 1
  MaxTransitions = 1
  ClockModulus = 8
  Torn = torn
  Blank = blank
INVARIANTS
  FailureKept
