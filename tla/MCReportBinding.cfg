SPECIFICATION Spec
CONSTANTS
  MaxInt = 131071
  searchMax = 10
  YearSeconds = 3600
  Flags <- FastLinks
INVARIANT
  BindingBudgetBindsFirst
CHECK_DEADLOCK FALSE
