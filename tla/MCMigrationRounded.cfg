SPECIFICATION Spec
CONSTANTS
  MaxInt = 65535
  Precision = 1024
  Second = 10
  KeyStep = 100
  LeastKeys = 2
  MostKeys = 3
  Durations = {2, 9}
  Iterations = 4
  Flags <- RoundedFlags
INVARIANT
  GossipIsCoherent
CHECK_DEADLOCK FALSE
