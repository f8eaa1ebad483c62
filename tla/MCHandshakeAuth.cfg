SPECIFICATION Spec
CONSTANTS
  NameLists <- mcSingleNames
INVARIANT
  AuthLegIsTheMarshaledSize
CHECK_DEADLOCK FALSE
