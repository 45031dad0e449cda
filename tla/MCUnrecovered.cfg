SPECIFICATION Spec
CONSTANTS
  Domains = {0}
  MandatoryMasks = {{}}
  SensorTimeout = 1
  FaultModulus = 4
  CounterModulus = 4
  LogSlots = 1
  MaxListeners = 0
PROPERTIES
  NeverRelaxedUnrecovered
