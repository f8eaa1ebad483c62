SPECIFICATION Spec
CONSTANTS
  MaxInt = 536870911
  searchMax = 100000
  Flags <- mcSlowLink
INVARIANT
  NumbersAreReductions
CHECK_DEADLOCK FALSE
