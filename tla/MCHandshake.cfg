SPECIFICATION Spec
CONSTANTS
  NameLists <- mcNameLists
INVARIANTS
  TypeOK
  TableIsWholeOrAbsent
  SafetyColumnsFollowTheLegs
  UpgradesCostTheirLegs
  VarintsCountShifts
CHECK_DEADLOCK FALSE
