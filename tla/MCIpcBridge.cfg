SPECIFICATION DamageSpec
CONSTANTS
  Senders = {gate}
  Commands = {1, 2}
  Slots = 4
  CounterModulus = 3
  NoCommand = 0
  MaxFlips = 2
  FirstCommand = 1
INVARIANTS
  TypeOK
  WriterOwnsSlot
  CountersContiguous
  M7AcceptsAll
  CrcIsDivision
  DamageDetected
PROPERTIES
  ImplementsQueue
