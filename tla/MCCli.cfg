SPECIFICATION Spec
CONSTANTS
  MaxInt = 536870911
  Precision = 67108864
  searchMax = 100000
  YearSeconds = 3600
  Second = 1000
  KeyStep = 100
  LeastKeys = 1
  MostKeys = 1
  Durations = {2}
  Iterations = 1
  Argvs <- mcArgvs
INVARIANTS
  ModesStartOnWhatTheyAssume
  PublishedFigures
  KeepsItsWord
PROPERTY
  AlwaysEnds
CHECK_DEADLOCK FALSE
