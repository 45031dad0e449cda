SPECIFICATION FairSpec
CONSTANTS
  Domains = {0, 7}
  MandatoryMasks = {{}, {0, 7}}
  SensorTimeout = 1
  FaultModulus = 4
  CounterModulus = 4
  LogSlots = 3
  MaxListeners = 0
INVARIANTS
  LogExplainsState
PROPERTIES
  SilenceIsFaulted
  FullOperationReturns
