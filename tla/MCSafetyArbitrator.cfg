SPECIFICATION Spec
CONSTANTS
  Domains = {0, 4}
  MandatoryMasks = {{4}, {0, 4}}
  SensorTimeout = 0
  FaultModulus = 4
  CounterModulus = 2
  LogSlots = 1
  MaxListeners = 1
INVARIANTS
  TypeOK
  CountsMatchHealth
  StateMatchesMask
  CommandFitsFaults
  RestrictionJustified
PROPERTIES
  ReleasedWithCause
  ImplementsAuthority
