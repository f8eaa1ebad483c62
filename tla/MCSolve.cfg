SPECIFICATION Spec
CONSTANTS
  MaxInt = 131071
  searchMax = 1000
  Flags <- mcFlags
INVARIANTS
  TypeOK
  CellsMatchTheCeiling
  TableIsMonotone
  ReportIsWholeOrAbsent
PROPERTY
  Terminates
CHECK_DEADLOCK FALSE
