SPECIFICATION Spec
CONSTANTS
  MaxInt = 32767
  Precision = 1024
  Second = 10
  KeyStep = 100
  LeastKeys = 2
  MostKeys = 3
  Durations = {2, 9}
  Iterations = 4
  Flags <- mcFlags
INVARIANTS
  TypeOK
  TablesAreWholeOrAbsent
  PercentilesRankAllKeys
  RoundsRestOnTheTail
  VerdictsAreExact
  GossipWithinBound
  MitigationsFollowTheVotes
CHECK_DEADLOCK FALSE
