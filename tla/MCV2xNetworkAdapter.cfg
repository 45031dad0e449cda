SPECIFICATION Spec
CONSTANTS
  Authorities <- SomeAuthorities
  Pseudonyms <- SomePseudonyms
  RootKey = "root"
  Messages = {"m1", "m2"}
  Noise = "noise"
  Times = {0, 1, 2, 3}
  PayloadLens = {16, 193}
  MaxSigned = 2
  NoAdvisory = noAdvisory
  NoReading = noReading
INVARIANTS
  StatusTellsPublished
  VerdictIsFirstFailure
PROPERTIES
  ImplementsFeed
