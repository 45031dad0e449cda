SPECIFICATION FairSpec
CONSTANTS
  States = {0, 3, 6}
  CounterModulus = 2
  Capacity = 3
INVARIANTS
  TypeOK
  M7MeetsDemand
PROPERTIES
  TransitionReachesM7
