SPECIFICATION Spec
CONSTANTS
  Callers = {handler}
  Candidates <- AllCandidates
  Configs <- TwoConfigs
  DefaultConfig <- DefaultThresholds
  Clock <- AnyTime
  One = 4
  NaN = nan
  CounterModulus = 3
  None = none
INVARIANTS
  TypeOK
  AcceptedPlausible
  RejectsEscalate
PROPERTIES
  AcceptedInOrder
  GuardNeverRegresses
  CommandExplained
